---- MODULE Spec2Model ----
(***************************************************************************)
(* A model of the conversion core of MiniLogos (services/jimService.ts,     *)
(* services/asepriteParser.ts, services/asepriteWriter.ts): the hardware    *)
(* colour word, the 8x8 4bpp tile codec, the .jim container, the sprite     *)
(* document container and the two conversions into the .jim data model.     *)
(*                                                                          *)
(* Byte buffers are sequences of 0..255; the source's 0-based indices are   *)
(* kept and translated by At/Slice.  Every JavaScript number that occurs   *)
(* is a non-negative integer below 2^31, where the 32-bit operators of the  *)
(* source (<<, >>, &, |) agree with the operators on naturals below.        *)
(***************************************************************************)
EXTENDS Integers, Sequences, FiniteSets, TLC

VARIABLES
    pc,         \* position of the scenario under check
    color,      \* RgbColor handed to rgbToGenesisColor
    word,       \* the 16-bit word it returned
    rgb,        \* the RgbColor parseGenesisColor returned for that word
    tile,       \* TileData handed to encodeTile / getFlippedVariants
    data,       \* the 32 bytes encodeTile returned
    pixels,     \* the TileData decodeTile returned for those bytes
    variants,   \* getFlippedVariants(tile)
    which,      \* the variant that was flipped a second time
    variants2,  \* getFlippedVariants(variants[which])
    rowStore,   \* the row arrays that exist, by address
    tileRows,   \* the addresses of the rows of tile
    variantRows,\* the addresses of the rows of the three variants of tile
    jim,        \* JimData handed to createJimFile, or to createAsepriteBlob
    file,       \* the bytes createJimFile returned for jim
    buffer,     \* the bytes handed to parseJimFile
    parsed,     \* what parseJimFile did with buffer: a JimData, or an exception
    rewritten,  \* createJimFile of the parsed JimData
    ase,        \* AsepriteData handed to convertAsepriteToJim
    forceUnique,\* its second argument
    originalJim,\* JimData handed to updateJimFromImage
    imageData,  \* ImageData handed to updateJimFromImage
    palettes,   \* the palettes of the document under construction
    mapWidth,   \* width of the map under construction, in cells
    mapHeight,  \* height of the map under construction, in cells
    newTiles,   \* the tile arena built so far
    newMap,     \* the finished rows of cells
    mapRow,     \* the cells of the row under construction
    mapX,       \* column of the next block
    mapY,       \* row of the next block
    result,     \* what the conversion returned: a JimData, or an exception
    mode,       \* second argument of createAsepriteBlob (its first is jim)
    activePaletteIdx, \* its third argument
    transparentBg,    \* its fourth argument
    blob,       \* the bytes createAsepriteBlob returned
    aseBuffer,  \* the bytes handed to parseAseprite
    appended,   \* the chunks put behind those of the export, as records
    aseParsed,  \* what parseAseprite did with them: an AsepriteData, or an exception
    targetColor,   \* RgbColor handed to findNearestColorWithDist
    paletteColors, \* the palette handed to it
    nearest     \* the { index, distance } it returned

colorVars  == <<color, word, rgb, targetColor, paletteColors, nearest>>
tileVars   == <<tile, data, pixels, variants, which, variants2,
                rowStore, tileRows, variantRows>>
nativeVars == <<jim, file, buffer, parsed, rewritten>>
convVars   == <<ase, forceUnique, originalJim, imageData, palettes, mapWidth,
                mapHeight, newTiles, newMap, mapRow, mapX, mapY, result>>
spriteVars == <<mode, activePaletteIdx, transparentBg, blob, aseBuffer, aseParsed,
                appended>>
vars       == <<pc, colorVars, tileVars, nativeVars, convVars, spriteVars>>

None == "none"

IdleColor  == /\ color = None /\ word = None /\ rgb = None
              /\ targetColor = None /\ paletteColors = None /\ nearest = None
IdleTile   == /\ tile = None /\ data = None /\ pixels = None
              /\ variants = None /\ which = None /\ variants2 = None
              /\ rowStore = None /\ tileRows = None /\ variantRows = None
IdleNative == /\ jim = None /\ file = None /\ buffer = None
              /\ parsed = None /\ rewritten = None
IdleConv   == /\ ase = None /\ forceUnique = None /\ originalJim = None
              /\ imageData = None /\ palettes = None /\ mapWidth = None
              /\ mapHeight = None /\ newTiles = None /\ newMap = None
              /\ mapRow = None /\ mapX = None /\ mapY = None /\ result = None

IdleSprite == /\ mode = None /\ activePaletteIdx = None /\ transparentBg = None
              /\ blob = None /\ aseBuffer = None /\ aseParsed = None
              /\ appended = None

(***************************************************************************)
(* JavaScript arithmetic on the values that occur                           *)
(***************************************************************************)
Min(a, b) == IF a < b THEN a ELSE b
Max(a, b) == IF a > b THEN a ELSE b

Pow2(n) == 2 ^ n

\* a << n
Shl(a, n) == a * Pow2(n)

\* a >> n
Shr(a, n) == a \div Pow2(n)

RECURSIVE BitAnd(_, _)
\* a & b
BitAnd(a, b) ==
    IF a = 0 \/ b = 0 THEN 0
    ELSE (a % 2) * (b % 2) + 2 * BitAnd(a \div 2, b \div 2)

RECURSIVE BitOr(_, _)
\* a | b
BitOr(a, b) ==
    IF a = 0 THEN b
    ELSE IF b = 0 THEN a
    ELSE Max(a % 2, b % 2) + 2 * BitOr(a \div 2, b \div 2)

\* seq[i] of the source, i counted from 0
At(seq, i) == seq[i + 1]

\* whether seq[i] of the source is defined
Has(seq, i) == i >= 0 /\ i < Len(seq)

(***************************************************************************)
(* ColorModel                                                               *)
(***************************************************************************)
\* a decoder that scales the 3-bit fields by 32 instead of 36
parseGenesisColorTimes32(w) ==
    [r |-> BitAnd(Shr(w, 1), 7) * 32,
     g |-> BitAnd(Shr(w, 5), 7) * 32,
     b |-> BitAnd(Shr(w, 9), 7) * 32]

\* parseGenesisColor: 0BGR, three 3-bit fields, each times 36
parseGenesisColor(w) ==
    [r |-> BitAnd(Shr(w, 1), 7) * 36,
     g |-> BitAnd(Shr(w, 5), 7) * 36,
     b |-> BitAnd(Shr(w, 9), 7) * 36]

\* a rounding variant of the encoder (Math.round in place of Math.floor)
rgbToGenesisColorRounding(c) ==
    LET rGen == Min(7, (c.r + 18) \div 36)
        gGen == Min(7, (c.g + 18) \div 36)
        bGen == Min(7, (c.b + 18) \div 36)
    IN  BitOr(BitOr(Shl(bGen, 9), Shl(gGen, 5)), Shl(rGen, 1))

\* rgbToGenesisColor: Math.min(7, Math.floor(ch / 36)) per channel
rgbToGenesisColor(c) ==
    LET rGen == Min(7, c.r \div 36)
        gGen == Min(7, c.g \div 36)
        bGen == Min(7, c.b \div 36)
    IN  BitOr(BitOr(Shl(bGen, 9), Shl(gGen, 5)), Shl(rGen, 1))

(***************************************************************************)
(* TileCodec                                                                *)
(***************************************************************************)
TileSize == 8
TileBytes == 32

\* decodeTile: two pixels per byte, high nibble first; a byte past the end
\* of the chunk is undefined, and undefined >> 4 and undefined & 15 are 0
decodeTile(chunk) ==
    [row \in 1..TileSize |->
        [x \in 1..TileSize |->
            LET k == (row - 1) * 4 + ((x - 1) \div 2)
            IN  IF ~Has(chunk, k) THEN 0
                ELSE IF (x - 1) % 2 = 0
                     THEN BitAnd(Shr(At(chunk, k), 4), 15)
                     ELSE BitAnd(At(chunk, k), 15)]]

\* an encoder that forgets the 4-bit mask of the low pixel
encodeTileUnmasked(px) ==
    [k \in 1..TileBytes |->
        LET row == (k - 1) \div 4
            col == (k - 1) % 4
            p1  == BitAnd(At(At(px, row), col * 2), 15)
            p2  == At(At(px, row), col * 2 + 1)
        IN  BitOr(Shl(p1, 4), p2) % 256]

\* encodeTile: data[row * 4 + col] = (p1 << 4) | p2 in a Uint8Array(32)
encodeTile(px) ==
    [k \in 1..TileBytes |->
        LET row == (k - 1) \div 4
            col == (k - 1) % 4
            p1  == BitAnd(At(At(px, row), col * 2), 15)
            p2  == BitAnd(At(At(px, row), col * 2 + 1), 15)
        IN  BitOr(Shl(p1, 4), p2) % 256]

\* [...row].reverse() and [...tile].reverse()
Reverse(s) == [i \in 1..Len(s) |-> s[Len(s) + 1 - i]]

\* a variant generator whose h shifts each row round by one instead of reversing it
getFlippedVariantsRotating(t) ==
    LET h  == [y \in 1..Len(t) |-> [x \in 1..Len(t[y]) |-> t[y][(x % Len(t[y])) + 1]]]
        v  == Reverse(t)
        hv == [y \in 1..Len(v) |-> Reverse(v[y])]
    IN  [h |-> h, v |-> v, hv |-> hv]

\* getFlippedVariants
getFlippedVariants(t) ==
    LET h  == [y \in 1..Len(t) |-> Reverse(t[y])]
        v  == Reverse(t)
        hv == [y \in 1..Len(v) |-> Reverse(v[y])]
    IN  [h |-> h, v |-> v, hv |-> hv]

\* getFlippedVariants on row arrays held by address: store is the sequence
\* of the row arrays that exist and t the addresses of the rows of the tile.
\* map(row => [...row].reverse()) makes a new array for every row;
\* [...tile].reverse() makes a new outer array holding the rows of tile
getFlippedVariantsStored(store, t) ==
    LET v      == Reverse(t)
        hRows  == [y \in 1..Len(t) |-> Reverse(store[t[y]])]
        hvRows == [y \in 1..Len(v) |-> Reverse(store[v[y]])]
    IN  [store |-> store \o hRows \o hvRows,
         h     |-> [y \in 1..Len(t) |-> Len(store) + y],
         v     |-> v,
         hv    |-> [y \in 1..Len(v) |-> Len(store) + Len(t) + y]]

\* areTilesEqual: all 64 positions compared
areTilesEqual(t1, t2) ==
    \A y \in 1..TileSize : \A x \in 1..TileSize : t1[y][x] = t2[y][x]

(***************************************************************************)
(* ContainerCodec: the .jim file                                            *)
(***************************************************************************)
RECURSIVE Flatten(_)
\* the elements of the rows of a nested array, in `for row / for x` order
Flatten(rows) ==
    IF rows = <<>> THEN <<>> ELSE Head(rows) \o Flatten(Tail(rows))

\* DataView.setUint16(_, v, false) and setUint32(_, v, false)
U16BE(v) == <<(v \div 256) % 256, v % 256>>
U32BE(v) == <<(v \div 16777216) % 256, (v \div 65536) % 256, (v \div 256) % 256, v % 256>>

\* DataView.getUint16(off, false) and getUint32(off, false), in range
GetU16BE(buf, off) == At(buf, off) * 256 + At(buf, off + 1)
GetU32BE(buf, off) ==
    At(buf, off) * 16777216 + At(buf, off + 1) * 65536
    + At(buf, off + 2) * 256 + At(buf, off + 3)

\* whether a DataView read of n bytes at off stays inside the buffer
\* (it throws RangeError otherwise)
CanRead(buf, off, n) == off >= 0 /\ off + n <= Len(buf)

\* Uint8Array.slice(from, to): clamped to the array
Slice(buf, from, to) ==
    [i \in 1..(Max(Min(to, Len(buf)), Min(from, Len(buf))) - Min(from, Len(buf))) |->
        buf[Min(from, Len(buf)) + i]]

\* a cell word whose tile index is not cut to 11 bits
CellWordUnmasked(cell) ==
    LET w0 == cell.tileIndex
        w1 == IF cell.hFlip THEN BitOr(w0, Shl(1, 11)) ELSE w0
        w2 == IF cell.vFlip THEN BitOr(w1, Shl(1, 12)) ELSE w1
        w3 == BitOr(w2, Shl(BitAnd(cell.paletteIndex, 3), 13))
        w4 == IF cell.priority THEN BitOr(w3, Shl(1, 15)) ELSE w3
    IN  w4 % 65536

\* createJimFile, step 5: the 16-bit word of one MapCell
CellWord(cell) ==
    LET w0 == BitAnd(cell.tileIndex, 2047)
        w1 == IF cell.hFlip THEN BitOr(w0, Shl(1, 11)) ELSE w0
        w2 == IF cell.vFlip THEN BitOr(w1, Shl(1, 12)) ELSE w1
        w3 == BitOr(w2, Shl(BitAnd(cell.paletteIndex, 3), 13))
        w4 == IF cell.priority THEN BitOr(w3, Shl(1, 15)) ELSE w3
    IN  w4 % 65536

\* a reader that takes hFlip from bit 12 and vFlip from bit 11
CellOfWordFlipsSwapped(w) ==
    [tileIndex    |-> BitAnd(w, 2047),
     paletteIndex |-> BitAnd(Shr(w, 13), 3),
     hFlip        |-> BitAnd(Shr(w, 12), 1) = 1,
     vFlip        |-> BitAnd(Shr(w, 11), 1) = 1,
     priority     |-> BitAnd(Shr(w, 15), 1) = 1]

\* parseJimFile, lines 93-97: the MapCell of one 16-bit word
CellOfWord(w) ==
    [tileIndex    |-> BitAnd(w, 2047),
     paletteIndex |-> BitAnd(Shr(w, 13), 3),
     hFlip        |-> BitAnd(Shr(w, 11), 1) = 1,
     vFlip        |-> BitAnd(Shr(w, 12), 1) = 1,
     priority     |-> BitAnd(Shr(w, 15), 1) = 1]

HeaderSize == 10
PaletteTableSize == 128

\* createJimFile: whether one of its writes falls outside the buffer it
\* allocated (DataView.setUint16 then throws RangeError)
createJimFileThrows(j) ==
    LET palOffset == HeaderSize + Len(j.tiles) * TileBytes
        mapOffset == palOffset + PaletteTableSize
        totalSize == mapOffset + 4 + j.mapWidth * j.mapHeight * 2
    IN  \/ palOffset + 2 * Len(Flatten(j.palettes)) > totalSize
        \/ mapOffset + 4 + 2 * Len(Flatten(j.mapData)) > totalSize

\* a writer whose step 5 walks the cells column by column
createJimFileColumnMajor(j) ==
    LET numStamps == Len(j.tiles)
        palOffset == HeaderSize + numStamps * TileBytes
        mapOffset == palOffset + PaletteTableSize
        totalSize == mapOffset + 4 + j.mapWidth * j.mapHeight * 2
        header    == U32BE(palOffset) \o U32BE(mapOffset) \o U16BE(numStamps)
        tileData  == [i \in 1..numStamps |-> encodeTile(j.tiles[i])]
        colors    == Flatten(j.palettes)
        words     == [i \in 1..Len(colors) |-> U16BE(rgbToGenesisColor(colors[i]))]
        mapHeader == U16BE(j.mapWidth) \o U16BE(j.mapHeight)
        cells     == Flatten([x \in 1..j.mapWidth |->
                                 [y \in 1..Len(j.mapData) |-> j.mapData[y][x]]])
        cellWords == [i \in 1..Len(cells) |-> U16BE(CellWord(cells[i]))]
    IN  [n \in 1..totalSize |->
            LET o == n - 1
            IN  IF o >= mapOffset + 4 /\ o < mapOffset + 4 + 2 * Len(cells)
                THEN cellWords[((o - mapOffset - 4) \div 2) + 1][((o - mapOffset - 4) % 2) + 1]
                ELSE IF o >= mapOffset /\ o < mapOffset + 4
                THEN mapHeader[o - mapOffset + 1]
                ELSE IF o >= palOffset /\ o < palOffset + 2 * Len(colors)
                THEN words[((o - palOffset) \div 2) + 1][((o - palOffset) % 2) + 1]
                ELSE IF o >= HeaderSize /\ o < palOffset
                THEN tileData[((o - HeaderSize) \div TileBytes) + 1][((o - HeaderSize) % TileBytes) + 1]
                ELSE IF o < HeaderSize
                THEN header[o + 1]
                ELSE 0]

\* createJimFile: the bytes of the zero-filled buffer after the five
\* groups of writes (header, tiles, palette words, map header, cells); where
\* two groups write the same byte the later group's value stands
createJimFile(j) ==
    LET numStamps == Len(j.tiles)
        palOffset == HeaderSize + numStamps * TileBytes
        mapOffset == palOffset + PaletteTableSize
        totalSize == mapOffset + 4 + j.mapWidth * j.mapHeight * 2
        header    == U32BE(palOffset) \o U32BE(mapOffset) \o U16BE(numStamps)
        tileData  == [i \in 1..numStamps |-> encodeTile(j.tiles[i])]
        colors    == Flatten(j.palettes)
        words     == [i \in 1..Len(colors) |-> U16BE(rgbToGenesisColor(colors[i]))]
        mapHeader == U16BE(j.mapWidth) \o U16BE(j.mapHeight)
        cells     == Flatten(j.mapData)
        cellWords == [i \in 1..Len(cells) |-> U16BE(CellWord(cells[i]))]
    IN  [n \in 1..totalSize |->
            LET o == n - 1
            IN  IF o >= mapOffset + 4 /\ o < mapOffset + 4 + 2 * Len(cells)
                THEN cellWords[((o - mapOffset - 4) \div 2) + 1][((o - mapOffset - 4) % 2) + 1]
                ELSE IF o >= mapOffset /\ o < mapOffset + 4
                THEN mapHeader[o - mapOffset + 1]
                ELSE IF o >= palOffset /\ o < palOffset + 2 * Len(colors)
                THEN words[((o - palOffset) \div 2) + 1][((o - palOffset) % 2) + 1]
                ELSE IF o >= HeaderSize /\ o < palOffset
                THEN tileData[((o - HeaderSize) \div TileBytes) + 1][((o - HeaderSize) % TileBytes) + 1]
                ELSE IF o < HeaderSize
                THEN header[o + 1]
                ELSE 0]

RangeError == [ok |-> FALSE, error |-> "RangeError"]

\* parseJimFile: the header, palette and map reads go through the DataView
\* and throw RangeError outside the buffer; the tiles are read with
\* Uint8Array.slice, which does not
parseJimFile(buf) ==
    IF ~CanRead(buf, 0, HeaderSize) THEN RangeError
    ELSE
    LET palOffset == GetU32BE(buf, 0)
        mapOffset == GetU32BE(buf, 4)
        numStamps == GetU16BE(buf, 8)
    IN
    IF ~CanRead(buf, palOffset, PaletteTableSize) THEN RangeError
    ELSE IF ~CanRead(buf, mapOffset, 4) THEN RangeError
    ELSE
    LET mapW == GetU16BE(buf, mapOffset)
        mapH == GetU16BE(buf, mapOffset + 2)
    IN
    IF mapW * mapH > 0
       /\ ~CanRead(buf, mapOffset + 4, mapW * mapH * 2) THEN RangeError
    ELSE
    [ok |-> TRUE,
     doc |->
        [palettes |-> [p \in 1..4 |-> [c \in 1..16 |->
            parseGenesisColor(GetU16BE(buf, palOffset + (p - 1) * 32 + (c - 1) * 2))]],
         tiles |-> [i \in 1..numStamps |->
            decodeTile(Slice(buf, HeaderSize + (i - 1) * TileBytes,
                                  HeaderSize + (i - 1) * TileBytes + TileBytes))],
         mapWidth |-> mapW,
         mapHeight |-> mapH,
         mapData |-> [y \in 1..mapH |-> [x \in 1..mapW |->
            CellOfWord(GetU16BE(buf, mapOffset + 4 + ((y - 1) * mapW + (x - 1)) * 2))]]]]

(***************************************************************************)
(* QuantizeAndPack: deduplication                                           *)
(***************************************************************************)
\* a comparison that tries the flip on both axes before the horizontal and
\* the vertical one
MatchOfBothFirst(existing, candidate) ==
    LET f == getFlippedVariants(existing)
    IN  IF areTilesEqual(existing, candidate) THEN "exact"
        ELSE IF areTilesEqual(f.hv, candidate) THEN "hv"
        ELSE IF areTilesEqual(f.h, candidate) THEN "h"
        ELSE IF areTilesEqual(f.v, candidate) THEN "v"
        ELSE "no"

\* the first of exact, h, v, hv in which `existing` equals the candidate
MatchOf(existing, candidate) ==
    LET f == getFlippedVariants(existing)
    IN  IF areTilesEqual(existing, candidate) THEN "exact"
        ELSE IF areTilesEqual(f.h, candidate) THEN "h"
        ELSE IF areTilesEqual(f.v, candidate) THEN "v"
        ELSE IF areTilesEqual(f.hv, candidate) THEN "hv"
        ELSE "no"

NotFound == [found |-> FALSE, index |-> 0, hFlip |-> FALSE, vFlip |-> FALSE]

\* a lookup that only compares the arena tiles as they are, without flips
findExistingTileExactOnly(tiles, candidate) ==
    LET hits == {i \in 1..Len(tiles) : areTilesEqual(tiles[i], candidate)}
    IN  IF hits = {} THEN NotFound
        ELSE [found |-> TRUE,
              index |-> (CHOOSE i \in hits : \A j \in hits : i <= j) - 1,
              hFlip |-> FALSE, vFlip |-> FALSE]

\* a lookup that reports the matching slot counted from one
findExistingTileOffByOne(tiles, candidate) ==
    LET hits == {i \in 1..Len(tiles) : MatchOf(tiles[i], candidate) # "no"}
    IN  IF hits = {} THEN NotFound
        ELSE LET i == CHOOSE i \in hits : \A j \in hits : i <= j
                 m == MatchOf(tiles[i], candidate)
             IN  [found |-> TRUE, index |-> i,
                  hFlip |-> m \in {"h", "hv"}, vFlip |-> m \in {"v", "hv"}]

\* a lookup that does not try the vertically flipped orientations
findExistingTileNoVertical(tiles, candidate) ==
    LET hits == {i \in 1..Len(tiles) : MatchOf(tiles[i], candidate) \in {"exact", "h"}}
    IN  IF hits = {} THEN NotFound
        ELSE LET i == CHOOSE i \in hits : \A j \in hits : i <= j
                 m == MatchOf(tiles[i], candidate)
             IN  [found |-> TRUE, index |-> i - 1,
                  hFlip |-> m \in {"h", "hv"}, vFlip |-> m \in {"v", "hv"}]

\* findExistingTile: the first arena slot matching in some orientation
\* (null is written NotFound)
findExistingTile(tiles, candidate) ==
    LET hits == {i \in 1..Len(tiles) : MatchOf(tiles[i], candidate) # "no"}
    IN  IF hits = {} THEN NotFound
        ELSE LET i == CHOOSE i \in hits : \A j \in hits : i <= j
                 m == MatchOf(tiles[i], candidate)
             IN  [found |-> TRUE, index |-> i - 1,
                  hFlip |-> m \in {"h", "hv"}, vFlip |-> m \in {"v", "hv"}]

\* a lookup that searches the arena whatever forceUnique says
DeduplicateAlways(unique, tiles, candidate) == findExistingTile(tiles, candidate)

\* convertAsepriteToJim, lines 596-607: the arena is searched unless
\* forceUnique is set
Deduplicate(unique, tiles, candidate) ==
    IF unique THEN NotFound ELSE findExistingTile(tiles, candidate)

(***************************************************************************)
(* QuantizeAndPack: convertAsepriteToJim                                    *)
(***************************************************************************)
\* the value of a typed-array read outside the array (undefined); no
\* element of a Uint8Array or Uint8ClampedArray is negative
Undefined == -1

Black == [r |-> 0, g |-> 0, b |-> 0]

\* palettes that take the source colours as they are
convertPalettesUnsnapped(a) ==
    [p \in 1..4 |-> [c \in 1..16 |->
        LET globalIdx == (p - 1) * 16 + (c - 1)
        IN  IF Has(a.palette, globalIdx) THEN At(a.palette, globalIdx) ELSE Black]]

\* step 1: ase.palette[pIdx * 16 + cIdx] || black, snapped to the hardware
convertPalettes(a) ==
    [p \in 1..4 |-> [c \in 1..16 |->
        LET globalIdx == (p - 1) * 16 + (c - 1)
            originalColor == IF Has(a.palette, globalIdx)
                             THEN At(a.palette, globalIdx) ELSE Black
        IN  parseGenesisColor(rgbToGenesisColor(originalColor))]]

\* Math.ceil(n / 8)
CeilDiv8(n) == (n + 7) \div 8

\* pass 1, lines 540-548: the index collected for pixel (x, y) of a block
BlockIndex(a, bx, by, x, y) ==
    LET imgX == bx * 8 + x
        imgY == by * 8 + y
    IN  IF imgX < a.width /\ imgY < a.height
        THEN IF Has(a.pixels, imgY * a.width + imgX)
             THEN At(a.pixels, imgY * a.width + imgX)
             ELSE Undefined
        ELSE 0

BlockIndices(a, bx, by) ==
    [y \in 1..TileSize |-> [x \in 1..TileSize |-> BlockIndex(a, bx, by, x - 1, y - 1)]]

\* Math.floor(idx / 16); NaN (of undefined) is written Undefined
BankOf(idx) == IF idx = Undefined THEN Undefined ELSE idx \div 16

\* a tally that leaves out the pixels that are entry 0 of their bank
PaletteCountsOpaque(ti) ==
    [p \in 0..3 |->
        Cardinality({q \in (1..TileSize) \X (1..TileSize) :
                        /\ ti[q[1]][q[2]] # Undefined
                        /\ ti[q[1]][q[2]] % 16 # 0
                        /\ BankOf(ti[q[1]][q[2]]) = p})]

\* pass 1, lines 550-556: the tally of non-zero indices per bank 0..3
PaletteCounts(ti) ==
    [p \in 0..3 |->
        Cardinality({q \in (1..TileSize) \X (1..TileSize) :
                        ti[q[1]][q[2]] # 0 /\ BankOf(ti[q[1]][q[2]]) = p})]

RECURSIVE ScanBestPaletteLastWins(_, _, _, _)
\* a scan that lets a later bank of equal count replace the best
ScanBestPaletteLastWins(counts, p, bestPalette, maxCount) ==
    IF p > 3 THEN bestPalette
    ELSE IF counts[p] >= maxCount
         THEN ScanBestPaletteLastWins(counts, p + 1, p, counts[p])
         ELSE ScanBestPaletteLastWins(counts, p + 1, bestPalette, maxCount)

RECURSIVE ScanBestPalette(_, _, _, _)
\* lines 562-569: the scan p = 0..3 replacing the best on a strictly higher count
ScanBestPalette(counts, p, bestPalette, maxCount) ==
    IF p > 3 THEN bestPalette
    ELSE IF counts[p] > maxCount
         THEN ScanBestPalette(counts, p + 1, p, counts[p])
         ELSE ScanBestPalette(counts, p + 1, bestPalette, maxCount)

BestPalette(ti) == ScanBestPalette(PaletteCounts(ti), 0, 0, -1)

\* a second pass that keeps the global index of the pixels of the bank
NormalizedTileGlobal(ti, bestPalette) ==
    [y \in 1..TileSize |-> [x \in 1..TileSize |->
        LET globalIdx == ti[y][x]
        IN  IF globalIdx # 0 /\ BankOf(globalIdx) = bestPalette
            THEN globalIdx
            ELSE 0]]

\* pass 2, lines 572-593
NormalizedTile(ti, bestPalette) ==
    [y \in 1..TileSize |-> [x \in 1..TileSize |->
        LET globalIdx == ti[y][x]
        IN  IF globalIdx # 0 /\ BankOf(globalIdx) = bestPalette
            THEN globalIdx % 16
            ELSE 0]]

RECURSIVE ConvertRange(_, _, _, _, _, _)
\* the passes lo..hi of the loops of lines 528-623 over the blocks in
\* row-major order, w blocks to the row, from the arena and the cells in
\* `before`; the passes are taken by halves, and the count of the cells of
\* the first half has that half evaluated before the second is entered
ConvertRange(a, unique, w, lo, hi, before) ==
    IF lo > hi THEN before
    ELSE IF lo = hi
    THEN LET tileIndices    == BlockIndices(a, lo % w, lo \div w)
             bestPalette    == BestPalette(tileIndices)
             normalizedTile == NormalizedTile(tileIndices, bestPalette)
             existing       == Deduplicate(unique, before.tiles, normalizedTile)
         IN  [tiles |-> IF existing.found THEN before.tiles
                        ELSE Append(before.tiles, normalizedTile),
              cells |-> Append(before.cells,
                  [tileIndex    |-> IF existing.found THEN existing.index
                                    ELSE Len(before.tiles),
                   paletteIndex |-> bestPalette,
                   hFlip        |-> existing.hFlip,
                   vFlip        |-> existing.vFlip,
                   priority     |-> FALSE])]
    ELSE LET mid   == (lo + hi) \div 2
             first == ConvertRange(a, unique, w, lo, mid, before)
         IN  IF Len(first.cells) = Len(before.cells) + mid - lo + 1
             THEN ConvertRange(a, unique, w, mid + 1, hi, first)
             ELSE first

\* convertAsepriteToJim(ase, forceUnique), lines 488-632, as one value
convertAsepriteToJim(a, unique) ==
    LET w     == CeilDiv8(a.width)
        h     == CeilDiv8(a.height)
        final == ConvertRange(a, unique, w, 0, w * h - 1,
                              [tiles |-> <<>>, cells |-> <<>>])
    IN  [ok  |-> TRUE,
         doc |-> [palettes  |-> convertPalettes(a),
                  tiles     |-> final.tiles,
                  mapWidth  |-> w,
                  mapHeight |-> h,
                  mapData   |-> [y \in 1..h |-> [x \in 1..w |->
                                   final.cells[(y - 1) * w + x]]]]]

(***************************************************************************)
(* QuantizeAndPack: updateJimFromImage                                      *)
(***************************************************************************)
\* lines 414-419: the RGB of pixel (x, y) of a block, read from the RGBA
\* bytes of the image; a read past the end gives undefined channels
BlockPixel(img, bx, by, x, y) ==
    LET idx == ((by * 8 + y) * img.width + (bx * 8 + x)) * 4
        ch(i) == IF Has(img.data, i) THEN At(img.data, i) ELSE Undefined
    IN  [r |-> ch(idx), g |-> ch(idx + 1), b |-> ch(idx + 2)]

BlockPixels(img, bx, by) ==
    [y \in 1..TileSize |-> [x \in 1..TileSize |-> BlockPixel(img, bx, by, x - 1, y - 1)]]

\* whether colorDist(target, _) is NaN: a channel of target is undefined
DistIsNaN(target) ==
    target.r = Undefined \/ target.g = Undefined \/ target.b = Undefined

\* colorDist on defined channels
colorDist(c1, c2) ==
    (c1.r - c2.r) * (c1.r - c2.r) + (c1.g - c2.g) * (c1.g - c2.g)
    + (c1.b - c2.b) * (c1.b - c2.b)

RECURSIVE ScanNearestLastWins(_, _, _, _)
\* a scan that lets a later entry of equal distance replace the best
ScanNearestLastWins(target, palette, i, best) ==
    IF i >= Len(palette) THEN best
    ELSE LET dist == colorDist(target, At(palette, i))
         IN  IF ~DistIsNaN(target) /\ (~best.finite \/ dist <= best.distance)
             THEN ScanNearestLastWins(target, palette, i + 1,
                      [index |-> i, distance |-> dist, finite |-> TRUE])
             ELSE ScanNearestLastWins(target, palette, i + 1, best)

RECURSIVE ScanNearest(_, _, _, _)
\* findNearestColorWithDist, lines 344-350: entry i replaces the best when
\* its distance is smaller; bestDist starts at Infinity (finite = FALSE),
\* and NaN is smaller than nothing
ScanNearest(target, palette, i, best) ==
    IF i >= Len(palette) THEN best
    ELSE LET dist == colorDist(target, At(palette, i))
         IN  IF ~DistIsNaN(target) /\ (~best.finite \/ dist < best.distance)
             THEN ScanNearest(target, palette, i + 1,
                      [index |-> i, distance |-> dist, finite |-> TRUE])
             ELSE ScanNearest(target, palette, i + 1, best)

findNearestColorWithDist(target, palette) ==
    ScanNearest(target, palette, 0, [index |-> 0, distance |-> 0, finite |-> FALSE])

RECURSIVE RangeSum(_, _, _)
\* the sum of q[lo..k], by halves
RangeSum(q, lo, k) ==
    IF lo > k THEN 0
    ELSE IF lo = k THEN q[lo]
    ELSE RangeSum(q, lo, (lo + k) \div 2) + RangeSum(q, ((lo + k) \div 2) + 1, k)

\* lines 431-443: the nearest entries of palette p for the 64 pixels, and
\* the sum of their distances (Infinity when one of them is: finite = FALSE)
PaletteFit(blockPixels, currentPalette) ==
    LET near == [y \in 1..TileSize |-> [x \in 1..TileSize |->
                    findNearestColorWithDist(blockPixels[y][x], currentPalette)]]
        flat == Flatten(near)
    IN  [indices |-> [y \in 1..TileSize |-> [x \in 1..TileSize |-> near[y][x].index]],
         finite  |-> \A i \in 1..Len(flat) : flat[i].finite,
         error   |-> RangeSum([i \in 1..Len(flat) |-> flat[i].distance], 1, Len(flat))]

RECURSIVE ScanPalettesLastWins(_, _, _, _)
\* a scan that lets a later palette of equal error replace the best
ScanPalettesLastWins(blockPixels, pals, p, best) ==
    IF p > 3 THEN best
    ELSE LET fit == PaletteFit(blockPixels, At(pals, p))
         IN  IF fit.finite /\ (~best.finite \/ fit.error <= best.minTotalError)
             THEN ScanPalettesLastWins(blockPixels, pals, p + 1,
                      [bestPaletteIdx |-> p, minTotalError |-> fit.error,
                       finite |-> TRUE, bestTileIndices |-> fit.indices])
             ELSE ScanPalettesLastWins(blockPixels, pals, p + 1, best)

RECURSIVE ScanPalettes(_, _, _, _)
\* lines 426-450: palette p replaces the best when its error is smaller than
\* minTotalError, which starts at Infinity (finite = FALSE)
ScanPalettes(blockPixels, pals, p, best) ==
    IF p > 3 THEN best
    ELSE LET fit == PaletteFit(blockPixels, At(pals, p))
         IN  IF fit.finite /\ (~best.finite \/ fit.error < best.minTotalError)
             THEN ScanPalettes(blockPixels, pals, p + 1,
                      [bestPaletteIdx |-> p, minTotalError |-> fit.error,
                       finite |-> TRUE, bestTileIndices |-> fit.indices])
             ELSE ScanPalettes(blockPixels, pals, p + 1, best)

BestFit(blockPixels, pals) ==
    ScanPalettes(blockPixels, pals, 0,
        [bestPaletteIdx |-> 0, minTotalError |-> 0, finite |-> FALSE,
         bestTileIndices |-> <<>>])

\* whether a TileData lacks a row that areTilesEqual reads
Malformed(t) == Len(t) < TileSize

\* findExistingTile inside updateJimFromImage: areTilesEqual reads t[y][x]
\* of both tiles, and throws TypeError when a row is missing; the first
\* comparison is with slot 0
findExistingTileThrows(tiles, candidate) ==
    IF Malformed(candidate) THEN tiles # <<>>
    ELSE \E i \in 1..Len(tiles) :
             /\ Malformed(tiles[i])
             /\ \A j \in 1..(i - 1) :
                    ~Malformed(tiles[j]) /\ MatchOf(tiles[j], candidate) = "no"

TypeError == [ok |-> FALSE, error |-> "TypeError"]

\* a return that snaps the palettes to the hardware levels
UpdatedJimSnapped(original, tiles, map) ==
    [original EXCEPT !.tiles = tiles, !.mapData = map,
                     !.palettes = [p \in 1..Len(@) |-> [c \in 1..Len(@[p]) |->
                                      parseGenesisColor(rgbToGenesisColor(@[p][c]))]]]

\* lines 481-485: { ...originalJim, tiles: newTiles, mapData: newMap }
UpdatedJim(original, tiles, map) ==
    [original EXCEPT !.tiles = tiles, !.mapData = map]

(***************************************************************************)
(* SpriteCodec: the sprite document container                               *)
(***************************************************************************)
\* DataView.setUint16 / setUint32 (offset, value, true): little-endian, the
\* value taken modulo 2^16 / 2^32
U16LE(v) == <<v % 256, (v \div 256) % 256>>
U32LE(v) == <<v % 256, (v \div 256) % 256, (v \div 65536) % 256, (v \div 16777216) % 256>>

\* DataView.getUint16 / getUint32 / getInt16 (offset, true), in range
GetU16LE(buf, off) == At(buf, off) + At(buf, off + 1) * 256
GetU32LE(buf, off) ==
    At(buf, off) + At(buf, off + 1) * 256
    + At(buf, off + 2) * 65536 + At(buf, off + 3) * 16777216
GetI16LE(buf, off) ==
    IF GetU16LE(buf, off) >= 32768 THEN GetU16LE(buf, off) - 65536 ELSE GetU16LE(buf, off)

\* a fresh Uint8Array(n)
Zeros(n) == [i \in 1..n |-> 0]

RECURSIVE WeightedSum(_, _, _)
\* the sum of (k + 1 - i) * bytes[i] over i in lo..k, modulo 65521, by halves
WeightedSum(bytes, lo, k) ==
    IF lo > k THEN 0
    ELSE IF lo = k THEN bytes[lo]
    ELSE LET mid == (lo + k) \div 2
         IN  (WeightedSum(bytes, lo, mid) + WeightedSum(bytes, mid + 1, k)
              + (k - mid) * (RangeSum(bytes, lo, mid) % 65521)) % 65521

\* the Adler-32 checksum of RFC 1950 as its two 16-bit halves <<s2, s1>>:
\* s1 is 1 plus the sum of the bytes, s2 the sum of the running values of s1
Adler32(bytes) ==
    <<(Len(bytes) + WeightedSum(bytes, 1, Len(bytes))) % 65521,
      (1 + RangeSum(bytes, 1, Len(bytes))) % 65521>>

\* compressData, lines 23-32: CompressionStream('deflate') returns a zlib
\* stream (RFC 1950) of the bytes.  The stream written here is the one
\* every encoder may emit: the header 0x78 0x01, one final stored block
\* (LEN, its complement, the bytes; the buffers of the export are shorter
\* than 65536 bytes) and the checksum, high half first.
compressData(bytes) ==
    <<120, 1, 1>> \o U16LE(Len(bytes)) \o U16LE(65535 - Len(bytes)) \o bytes
    \o U16BE(Adler32(bytes)[1]) \o U16BE(Adler32(bytes)[2])

\* lines 108-114: DecompressionStream('deflate') on the bytes of the cel.
\* It fails on a bad header, on a stored block whose LEN and complement
\* disagree, on a stream that ends early or goes on after its checksum, and
\* on a checksum that is not that of the bytes; streams of one stored block
\* are the ones inflated here.
Inflate(z) ==
    IF Len(z) < 11 THEN [ok |-> FALSE]
    ELSE IF z[1] % 16 # 8 \/ (z[1] * 256 + z[2]) % 31 # 0 \/ BitAnd(z[2], 32) # 0
    THEN [ok |-> FALSE]
    ELSE IF BitAnd(z[3], 7) # 1 THEN [ok |-> FALSE]
    ELSE IF GetU16LE(z, 3) + GetU16LE(z, 5) # 65535 THEN [ok |-> FALSE]
    ELSE IF Len(z) # 11 + GetU16LE(z, 3) THEN [ok |-> FALSE]
    ELSE LET payload == [i \in 1..GetU16LE(z, 3) |-> z[7 + i]]
             sum     == Adler32(payload)
         IN  IF GetU16BE(z, 7 + Len(payload)) = sum[1]
                /\ GetU16BE(z, 9 + Len(payload)) = sum[2]
             THEN [ok |-> TRUE, bytes |-> payload]
             ELSE [ok |-> FALSE]

\* tile[srcY]?.[srcX] || 0
TilePixel(t, srcY, srcX) ==
    IF srcY < Len(t) /\ srcX < Len(t[srcY + 1]) THEN t[srcY + 1][srcX + 1] ELSE 0

\* jim.tiles[index] || []
TileOrEmpty(doc, index) ==
    IF index >= 0 /\ index < Len(doc.tiles) THEN doc.tiles[index + 1] ELSE <<>>

\* jim.palettes[activePaletteIdx] || jim.palettes[0], lines 48 and 116
PaletteOrFirst(doc, paletteIdx) ==
    IF paletteIdx >= 0 /\ paletteIdx < Len(doc.palettes)
    THEN doc.palettes[paletteIdx + 1]
    ELSE doc.palettes[1]

\* lines 40-139: the canvas size, the index buffer and the palette that
\* createAsepriteBlob composes; a Uint8Array keeps a value modulo 256
ComposeCanvas(doc, exportMode, paletteIdx) ==
    IF exportMode = "map"
    THEN LET w == doc.mapWidth * 8
             h == doc.mapHeight * 8
         IN  [width  |-> w,
              height |-> h,
              palette |-> IF paletteIdx >= 0
                          THEN PaletteOrFirst(doc, paletteIdx)
                          ELSE Flatten(doc.palettes),
              pixels |-> [i \in 1..(w * h) |->
                 LET destX == (i - 1) % w
                     destY == (i - 1) \div w
                     cell  == doc.mapData[(destY \div 8) + 1][(destX \div 8) + 1]
                     srcY  == IF cell.vFlip THEN 7 - (destY % 8) ELSE destY % 8
                     srcX  == IF cell.hFlip THEN 7 - (destX % 8) ELSE destX % 8
                     colorIdx == TilePixel(TileOrEmpty(doc, cell.tileIndex), srcY, srcX)
                 IN  IF paletteIdx >= 0 THEN colorIdx % 256
                     ELSE (cell.paletteIndex * 16 + colorIdx) % 256]]
    ELSE LET numTiles == Len(doc.tiles)
             cols == IF numTiles > 0 THEN Min(numTiles, 16) ELSE 1
             rows == IF numTiles > 0 THEN (numTiles + 15) \div 16 ELSE 1
             w == cols * 8
             h == rows * 8
         IN  [width  |-> w,
              height |-> h,
              palette |-> PaletteOrFirst(doc, paletteIdx),
              pixels |-> [i \in 1..(w * h) |->
                 LET destX == (i - 1) % w
                     destY == (i - 1) \div w
                     n     == (destY \div 8) * 16 + (destX \div 8)
                 IN  IF n < numTiles
                     THEN TilePixel(doc.tiles[n + 1], destY % 8, destX % 8) % 256
                     ELSE 0]]

\* an alpha that is 0 on entry 0 alone, whatever the number of colours
EntryAlphaFirstOnly(i, numColors, transparentOnZero) ==
    IF transparentOnZero /\ i = 0 THEN 0 ELSE 255

\* lines 169-179: the alpha of palette entry i of numColors
EntryAlpha(i, numColors, transparentOnZero) ==
    IF transparentOnZero /\ ((numColors = 64 /\ i % 16 = 0) \/ (numColors # 64 /\ i = 0))
    THEN 0 ELSE 255

\* a palette chunk that snaps every channel to its hardware level
PaletteChunkQuantized(pal, transparentOnZero) ==
    U32LE(26 + Len(pal) * 6) \o U16LE(8217) \o U32LE(Len(pal)) \o U32LE(0)
    \o U32LE(Len(pal) - 1) \o Zeros(8)
    \o [k \in 1..(Len(pal) * 6) |->
          <<0, 0, 36 * ((pal[((k - 1) \div 6) + 1].r % 256) \div 36),
            36 * ((pal[((k - 1) \div 6) + 1].g % 256) \div 36),
            36 * ((pal[((k - 1) \div 6) + 1].b % 256) \div 36),
            EntryAlpha((k - 1) \div 6, Len(pal), transparentOnZero)>>[((k - 1) % 6) + 1]]

\* lines 146-182: the palette chunk (0x2019); byte k of the entries is
\* field (k - 1) % 6 of entry (k - 1) \div 6: flags (2 bytes), r, g, b, alpha
PaletteChunk(pal, transparentOnZero) ==
    U32LE(26 + Len(pal) * 6) \o U16LE(8217) \o U32LE(Len(pal)) \o U32LE(0)
    \o U32LE(Len(pal) - 1) \o Zeros(8)
    \o [k \in 1..(Len(pal) * 6) |->
          <<0, 0, pal[((k - 1) \div 6) + 1].r % 256, pal[((k - 1) \div 6) + 1].g % 256,
            pal[((k - 1) \div 6) + 1].b % 256,
            EntryAlpha((k - 1) \div 6, Len(pal), transparentOnZero)>>[((k - 1) % 6) + 1]]

\* "Layer 1" in UTF-8
LayerName == <<76, 97, 121, 101, 114, 32, 49>>

\* lines 184-203: the layer chunk (0x2004); the name is set at offset 24
\* of the 26 + 7 bytes, which leaves the last two zero
LayerChunk ==
    U32LE(26 + Len(LayerName)) \o U16LE(8196) \o U16LE(1) \o U16LE(0) \o U16LE(0)
    \o U16LE(0) \o U16LE(0) \o U16LE(0) \o <<255>> \o Zeros(3)
    \o U16LE(Len(LayerName)) \o LayerName \o Zeros(2)

\* lines 205-221: the cel chunk (0x2005) around the compressed pixels
CelChunk(w, h, compressedPixels) ==
    U32LE(26 + Len(compressedPixels)) \o U16LE(8197) \o U16LE(0) \o U16LE(0)
    \o U16LE(0) \o <<255>> \o U16LE(2) \o Zeros(7) \o U16LE(w) \o U16LE(h)
    \o compressedPixels

\* lines 223-232: the frame header
FrameHeader(frameSize) ==
    U32LE(frameSize) \o U16LE(61946) \o U16LE(3) \o U16LE(100) \o Zeros(2) \o U32LE(3)

\* lines 234-250: the 128-byte file header
FileHeader(frameSize, w, h, numColors, transparentOnZero) ==
    U32LE(128 + frameSize) \o U16LE(42464) \o U16LE(1) \o U16LE(w) \o U16LE(h)
    \o U16LE(8) \o U32LE(1) \o Zeros(6)
    \o U16LE(IF transparentOnZero THEN 0 ELSE 255) \o Zeros(2) \o U16LE(numColors)
    \o <<1, 1>> \o Zeros(4) \o U16LE(8) \o U16LE(8) \o Zeros(88)

\* createAsepriteBlob: the bytes of the Blob
createAsepriteBlob(doc, exportMode, paletteIdx, transparentOnZero) ==
    LET canvas       == ComposeCanvas(doc, exportMode, paletteIdx)
        paletteChunk == PaletteChunk(canvas.palette, transparentOnZero)
        celChunk     == CelChunk(canvas.width, canvas.height, compressData(canvas.pixels))
        frameSize    == 16 + Len(paletteChunk) + Len(LayerChunk) + Len(celChunk)
    IN  FileHeader(frameSize, canvas.width, canvas.height, Len(canvas.palette),
                   transparentOnZero)
        \o FrameHeader(frameSize) \o paletteChunk \o LayerChunk \o celChunk

\* Array(256).fill({ r: 0, g: 0, b: 0 })
BlackPalette == [i \in 1..256 |-> [r |-> 0, g |-> 0, b |-> 0]]

SpriteError(message) == [ok |-> FALSE, error |-> message]

RECURSIVE ReadPaletteRun(_, _, _, _, _, _, _)
\* lines 68-86, for the entries c .. stop - 1: entry c of the palette chunk
\* is at pOff; the loop breaks at the end of the chunk (left = TRUE), and a
\* read beyond the buffer throws RangeError
ReadPaletteRun(buf, chunkEnd, stop, firstIndex, c, pOff, pal) ==
    IF c >= stop THEN [ok |-> TRUE, left |-> FALSE, palette |-> pal, pOff |-> pOff]
    ELSE IF pOff + 6 > chunkEnd
    THEN [ok |-> TRUE, left |-> TRUE, palette |-> pal, pOff |-> pOff]
    ELSE IF ~CanRead(buf, pOff, 5) THEN RangeError
    ELSE LET flags == GetU16LE(buf, pOff)
             entry == [r |-> At(buf, pOff + 2), g |-> At(buf, pOff + 3),
                       b |-> At(buf, pOff + 4)]
             pal2  == IF firstIndex + c < 256
                      THEN [pal EXCEPT ![firstIndex + c + 1] = entry]
                      ELSE pal
         IN  IF BitAnd(flags, 1) = 0
             THEN ReadPaletteRun(buf, chunkEnd, stop, firstIndex, c + 1, pOff + 6, pal2)
             ELSE IF pOff + 8 > chunkEnd
             THEN [ok |-> TRUE, left |-> TRUE, palette |-> pal2, pOff |-> pOff + 6]
             ELSE IF ~CanRead(buf, pOff + 6, 2) THEN RangeError
             ELSE ReadPaletteRun(buf, chunkEnd, stop, firstIndex, c + 1,
                                 pOff + 8 + GetU16LE(buf, pOff + 6), pal2)

RECURSIVE ReadPaletteEntries(_, _, _, _, _, _, _)
\* the loop of lines 68-86 from entry c on, taken eight entries at a time
ReadPaletteEntries(buf, chunkEnd, numEntries, firstIndex, c, pOff, pal) ==
    LET run == ReadPaletteRun(buf, chunkEnd, Min(numEntries, c + 8), firstIndex,
                              c, pOff, pal)
    IN  IF ~run.ok THEN RangeError
        ELSE IF run.left \/ c + 8 >= numEntries
        THEN [ok |-> TRUE, palette |-> run.palette]
        ELSE ReadPaletteEntries(buf, chunkEnd, numEntries, firstIndex, c + 8,
                                run.pOff, run.palette)

\* a blit that tests the index destY * width + destX against the length of
\* the canvas instead of testing destX and destY: a pixel beyond the right
\* edge lands in the next row
BlitWrapping(canvas, w, h, xPos, yPos, celWidth, celHeight, celPixels) ==
    [i \in 1..Len(canvas) |->
        LET hits == {q \in (0..(celWidth - 1)) \X (0..(celHeight - 1)) :
                        (yPos + q[2]) * w + xPos + q[1] = i - 1}
        IN  IF hits = {} THEN canvas[i]
            ELSE LET q == CHOOSE q \in hits : \A o \in hits : o[2] <= q[2]
                 IN  IF Has(celPixels, q[2] * celWidth + q[1])
                     THEN At(celPixels, q[2] * celWidth + q[1]) ELSE 0]

\* a blit that takes index 0 of a cel for transparent and leaves the canvas
\* pixel under it alone
BlitSkipZero(canvas, w, h, xPos, yPos, celWidth, celHeight, celPixels) ==
    [i \in 1..Len(canvas) |->
        LET cx == ((i - 1) % w) - xPos
            cy == ((i - 1) \div w) - yPos
        IN  IF cx >= 0 /\ cx < celWidth /\ cy >= 0 /\ cy < celHeight
               /\ Has(celPixels, cy * celWidth + cx)
               /\ At(celPixels, cy * celWidth + cx) # 0
            THEN At(celPixels, cy * celWidth + cx)
            ELSE canvas[i]]

\* lines 117-126: the cel drawn at (xPos, yPos) over the canvas; a cel pixel
\* the decompressed bytes do not hold is undefined and stored as 0
Blit(canvas, w, h, xPos, yPos, celWidth, celHeight, celPixels) ==
    [i \in 1..Len(canvas) |->
        LET cx == ((i - 1) % w) - xPos
            cy == ((i - 1) \div w) - yPos
        IN  IF cx >= 0 /\ cx < celWidth /\ cy >= 0 /\ cy < celHeight
            THEN IF Has(celPixels, cy * celWidth + cx)
                 THEN At(celPixels, cy * celWidth + cx) ELSE 0
            ELSE canvas[i]]

\* a cel reader without the try/catch: a payload that fails to decompress
\* ends the parse
ReadCelRethrow(buf, offset, chunkEnd, w, h, canvas) ==
    IF ~CanRead(buf, offset + 8, 2) \/ ~CanRead(buf, offset + 10, 2)
       \/ ~CanRead(buf, offset + 13, 2) THEN RangeError
    ELSE IF GetU16LE(buf, offset + 13) # 2 THEN [ok |-> TRUE, pixels |-> canvas]
    ELSE IF ~CanRead(buf, offset + 22, 2) \/ ~CanRead(buf, offset + 24, 2) THEN RangeError
    ELSE LET celPixels == Inflate(Slice(buf, offset + 26, chunkEnd))
         IN  IF ~celPixels.ok THEN SpriteError("Failed to decompress cel data")
             ELSE [ok |-> TRUE,
                   pixels |-> Blit(canvas, w, h, GetI16LE(buf, offset + 8),
                                   GetI16LE(buf, offset + 10),
                                   GetU16LE(buf, offset + 22),
                                   GetU16LE(buf, offset + 24), celPixels.bytes)]

\* lines 89-131: a cel chunk at offset; only compressed images (type 2) are
\* drawn, and a payload that fails to decompress leaves the canvas alone
ReadCel(buf, offset, chunkEnd, w, h, canvas) ==
    IF ~CanRead(buf, offset + 8, 2) \/ ~CanRead(buf, offset + 10, 2)
       \/ ~CanRead(buf, offset + 13, 2) THEN RangeError
    ELSE IF GetU16LE(buf, offset + 13) # 2 THEN [ok |-> TRUE, pixels |-> canvas]
    ELSE IF ~CanRead(buf, offset + 22, 2) \/ ~CanRead(buf, offset + 24, 2) THEN RangeError
    ELSE LET celPixels == Inflate(Slice(buf, offset + 26, chunkEnd))
         IN  IF ~celPixels.ok THEN [ok |-> TRUE, pixels |-> canvas]
             ELSE [ok |-> TRUE,
                   pixels |-> Blit(canvas, w, h, GetI16LE(buf, offset + 8),
                                   GetI16LE(buf, offset + 10),
                                   GetU16LE(buf, offset + 22),
                                   GetU16LE(buf, offset + 24), celPixels.bytes)]

RECURSIVE WalkChunks(_, _, _, _, _, _, _, _)
\* lines 57-134: chunk i of numChunks at offset
WalkChunks(buf, w, h, offset, i, numChunks, pal, canvas) ==
    IF i >= numChunks
    THEN [ok |-> TRUE,
          doc |-> [width |-> w, height |-> h, palette |-> pal, pixels |-> canvas]]
    ELSE IF ~CanRead(buf, offset, 4) \/ ~CanRead(buf, offset + 4, 2) THEN RangeError
    ELSE LET chunkSize == GetU32LE(buf, offset)
             chunkType == GetU16LE(buf, offset + 4)
         IN  IF chunkType = 8217
             THEN IF ~CanRead(buf, offset + 6, 4) \/ ~CanRead(buf, offset + 10, 4)
                  THEN RangeError
                  ELSE LET read == ReadPaletteEntries(buf, offset + chunkSize,
                                       GetU32LE(buf, offset + 6),
                                       GetU32LE(buf, offset + 10), 0, offset + 26, pal)
                       IN  IF ~read.ok THEN read
                           ELSE WalkChunks(buf, w, h, offset + chunkSize, i + 1,
                                           numChunks, read.palette, canvas)
             ELSE IF chunkType = 8197
             THEN LET cel == ReadCel(buf, offset, offset + chunkSize, w, h, canvas)
                  IN  IF ~cel.ok THEN cel
                      ELSE WalkChunks(buf, w, h, offset + chunkSize, i + 1,
                                      numChunks, pal, cel.pixels)
             ELSE WalkChunks(buf, w, h, offset + chunkSize, i + 1, numChunks,
                             pal, canvas)

\* a parseAseprite that tests the frame header before the bit depth
parseAsepriteFrameFirst(buf) ==
    IF ~CanRead(buf, 4, 2) THEN RangeError
    ELSE IF GetU16LE(buf, 4) # 42464 THEN SpriteError("Invalid Aseprite file header")
    ELSE IF Len(buf) < 128 + 16 THEN SpriteError("File too short for frame header")
    ELSE IF GetU16LE(buf, 128 + 4) # 61946 THEN SpriteError("Invalid Frame header")
    ELSE IF GetU16LE(buf, 12) # 8
    THEN SpriteError("Only 8bpp (Indexed) Aseprite files are supported")
    ELSE WalkChunks(buf, GetU16LE(buf, 8), GetU16LE(buf, 10), 128 + 16, 0,
                    IF GetU32LE(buf, 128 + 12) = 0 THEN GetU16LE(buf, 128 + 6)
                    ELSE GetU32LE(buf, 128 + 12),
                    BlackPalette, Zeros(GetU16LE(buf, 8) * GetU16LE(buf, 10)))

\* a parseAseprite that takes the old chunk count and turns to the new one
\* when the old one is zero
parseAsepriteOldFirst(buf) ==
    IF ~CanRead(buf, 4, 2) THEN RangeError
    ELSE IF GetU16LE(buf, 4) # 42464 THEN SpriteError("Invalid Aseprite file header")
    ELSE IF ~CanRead(buf, 8, 2) \/ ~CanRead(buf, 10, 2) \/ ~CanRead(buf, 12, 2)
    THEN RangeError
    ELSE IF GetU16LE(buf, 12) # 8
    THEN SpriteError("Only 8bpp (Indexed) Aseprite files are supported")
    ELSE IF Len(buf) < 128 + 16 THEN SpriteError("File too short for frame header")
    ELSE IF GetU16LE(buf, 128 + 4) # 61946 THEN SpriteError("Invalid Frame header")
    ELSE WalkChunks(buf, GetU16LE(buf, 8), GetU16LE(buf, 10), 128 + 16, 0,
                    IF GetU16LE(buf, 128 + 6) = 0 THEN GetU32LE(buf, 128 + 12)
                    ELSE GetU16LE(buf, 128 + 6),
                    BlackPalette, Zeros(GetU16LE(buf, 8) * GetU16LE(buf, 10)))

\* parseAseprite: an AsepriteData, or the exception thrown
parseAseprite(buf) ==
    IF ~CanRead(buf, 4, 2) THEN RangeError
    ELSE IF GetU16LE(buf, 4) # 42464 THEN SpriteError("Invalid Aseprite file header")
    ELSE IF ~CanRead(buf, 8, 2) \/ ~CanRead(buf, 10, 2) \/ ~CanRead(buf, 12, 2)
    THEN RangeError
    ELSE IF GetU16LE(buf, 12) # 8
    THEN SpriteError("Only 8bpp (Indexed) Aseprite files are supported")
    ELSE IF Len(buf) < 128 + 16 THEN SpriteError("File too short for frame header")
    ELSE IF GetU16LE(buf, 128 + 4) # 61946 THEN SpriteError("Invalid Frame header")
    ELSE WalkChunks(buf, GetU16LE(buf, 8), GetU16LE(buf, 10), 128 + 16, 0,
                    IF GetU32LE(buf, 128 + 12) = 0 THEN GetU16LE(buf, 128 + 6)
                    ELSE GetU32LE(buf, 128 + 12),
                    BlackPalette, Zeros(GetU16LE(buf, 8) * GetU16LE(buf, 10)))

(***************************************************************************)
(* Inputs                                                                   *)
(***************************************************************************)
\* channel values around the level boundaries 36k and at both ends of 0..255
Channels == {0, 35, 36, 37, 100, 128, 251, 252, 255}

HardwareLevels == {36 * k : k \in 0..7}

MaxColors == 3

\* the colours of the palettes searched: neighbours on the red axis, a
\* colour as far from black on the green axis, and white
NearColors ==
    {[r |-> 0, g |-> 0, b |-> 0], [r |-> 36, g |-> 0, b |-> 0],
     [r |-> 72, g |-> 0, b |-> 0], [r |-> 0, g |-> 36, b |-> 0],
     [r |-> 252, g |-> 252, b |-> 252]}

\* the colours looked up: half way between two entries, at equal distance
\* from three, on an entry, and far from all
NearTargets ==
    {[r |-> 18, g |-> 0, b |-> 0], [r |-> 18, g |-> 18, b |-> 0],
     [r |-> 36, g |-> 0, b |-> 0], [r |-> 54, g |-> 0, b |-> 7],
     [r |-> 255, g |-> 128, b |-> 0]}

\* the palettes of up to MaxColors entries, repeated entries included
NearPalettes == UNION {[1..n -> NearColors] : n \in 0..MaxColors}

\* painted positions <<row, column>>: corners, and a pair that a half turn
\* maps onto each other
TilePos == {<<0, 0>>, <<0, 7>>, <<7, 0>>, <<3, 4>>, <<4, 3>>, <<2, 5>>}

\* an 8x8 tile of background bg with two painted pixels
MkTile(bg, p1, v1, p2, v2) ==
    [y \in 1..TileSize |->
        [x \in 1..TileSize |->
            IF <<y - 1, x - 1>> = p2 THEN v2
            ELSE IF <<y - 1, x - 1>> = p1 THEN v1
            ELSE bg]]

BlankTile == MkTile(0, <<0, 0>>, 0, <<0, 0>>, 0)

MaxTiles == 2
MaxMapW == 2
MaxMapH == 2

\* tiles of a document: 4-bit values, and one holding values above 15
TileKinds ==
    <<MkTile(0, <<0, 0>>, 5, <<3, 4>>, 15),
      MkTile(1, <<0, 7>>, 21, <<7, 0>>, 255),
      BlankTile,
      MkTile(9, <<2, 5>>, 3, <<4, 3>>, 16)>>

\* palettes of a document: on the hardware levels, the same with palettes
\* 0 and 1 alike and palettes 2 and 3 alike, or any colours of 0..255
PalettesOf(kind) ==
    [p \in 1..4 |-> [c \in 1..16 |->
        IF kind = "hardware"
        THEN [r |-> 36 * ((c + p) % 8), g |-> 36 * (c % 8), b |-> 36 * ((c \div 2) % 8)]
        ELSE IF kind = "paired"
        THEN [r |-> 36 * ((c + 2 * ((p + 1) \div 2)) % 8), g |-> 36 * (c % 8),
              b |-> 36 * ((c \div 2) % 8)]
        ELSE [r |-> (c * 17 + p * 5) % 256, g |-> 255 - c * 13 + p, b |-> (c * c + 7 * p) % 256]]]


\* cells of a document: every flag, and tile indices beyond 11 bits
CellKinds ==
    <<[tileIndex |-> 0, paletteIndex |-> 0, hFlip |-> FALSE, vFlip |-> FALSE, priority |-> FALSE],
      [tileIndex |-> 1, paletteIndex |-> 3, hFlip |-> TRUE, vFlip |-> FALSE, priority |-> TRUE],
      [tileIndex |-> 2047, paletteIndex |-> 1, hFlip |-> FALSE, vFlip |-> TRUE, priority |-> FALSE],
      [tileIndex |-> 2048, paletteIndex |-> 2, hFlip |-> FALSE, vFlip |-> FALSE, priority |-> FALSE],
      [tileIndex |-> 2049, paletteIndex |-> 0, hFlip |-> TRUE, vFlip |-> TRUE, priority |-> TRUE],
      [tileIndex |-> 4095, paletteIndex |-> 1, hFlip |-> FALSE, vFlip |-> FALSE, priority |-> TRUE]>>

\* a JimData with n tiles and a w x h grid
MkJim(kind, n, t0, w, h, c0) ==
    [palettes  |-> PalettesOf(kind),
     tiles     |-> [i \in 1..n |-> TileKinds[((t0 + i) % Len(TileKinds)) + 1]],
     mapWidth  |-> w,
     mapHeight |-> h,
     mapData   |-> [y \in 1..h |-> [x \in 1..w |->
                      CellKinds[((c0 + (y - 1) * w + x) % Len(CellKinds)) + 1]]]]

MaxBlocksW == 2
MaxBlocksH == 2

\* the 8x8 blocks images are composed of (indices 0..255): a tile without
\* symmetry and its half-turn twin, tiles equal to one of their own flips and
\* their twins, a blank block, a single pixel 5, blocks of bank 1, blocks
\* mixing banks, a block with one pixel in bank 2 and one in bank 1, and a
\* block of index 16 with pixels 33 and 255
ImgKinds ==
    <<MkTile(0, <<0, 0>>, 5, <<2, 5>>, 3),
      MkTile(0, <<7, 7>>, 5, <<5, 2>>, 3),
      MkTile(0, <<0, 0>>, 7, <<0, 7>>, 7),
      MkTile(0, <<7, 7>>, 7, <<7, 0>>, 7),
      MkTile(0, <<3, 4>>, 9, <<4, 3>>, 9),
      BlankTile,
      MkTile(0, <<0, 0>>, 7, <<7, 0>>, 7),
      MkTile(0, <<7, 7>>, 7, <<0, 7>>, 7),
      MkTile(0, <<0, 0>>, 21, <<2, 5>>, 19),
      MkTile(17, <<0, 0>>, 5, <<0, 7>>, 70),
      MkTile(0, <<0, 0>>, 37, <<2, 5>>, 21),
      MkTile(16, <<0, 0>>, 33, <<7, 7>>, 255)>>


\* block kind k0 at block (0,0), stepping by s[1] per column and s[2] per row
PatternBlock(k0, s, bx, by) == ImgKinds[((k0 + bx * s[1] + by * s[2]) % Len(ImgKinds)) + 1]

\* the source palette of a sprite document: 256 entries of any colours
\* (kind 0) or of colours on the hardware levels (kind 1), or 20 entries of
\* any colours (kind 2)
ShortPalette == 20

AsePalette(kind) ==
    [i \in 1..(IF kind = 2 THEN ShortPalette ELSE 256) |->
        IF kind = 1
        THEN [r |-> 36 * (i % 8), g |-> 36 * ((i \div 8) % 8), b |-> 36 * ((i \div 3) % 8)]
        ELSE [r |-> (i * 7) % 256, g |-> (i * 13 + 5) % 256, b |-> 255 - ((i * 3) % 256)]]

\* an AsepriteData of width w and height h whose pixel (x, y) is that of its
\* block, with the last `short` pixels of the buffer missing
MkAse(w, h, block(_, _), short, palKind) ==
    [width   |-> w,
     height  |-> h,
     palette |-> AsePalette(palKind),
     pixels  |-> [i \in 1..Max(0, w * h - short) |->
                    LET x == (i - 1) % w
                        y == (i - 1) \div w
                    IN  block(x \div 8, y \div 8)[(y % 8) + 1][(x % 8) + 1]]]

\* the layouts of block kinds: every kind repeated and every kind followed
\* by its successor along a row; two kinds also stepping by two per row
Layouts ==
    {<<k0, s>> : k0 \in 0..(Len(ImgKinds) - 1), s \in {<<0, 0>>, <<1, 0>>}}
    \cup {<<k0, <<1, 2>>>> : k0 \in {0, 8}}

\* image shapes t = <<columns trimmed, rows trimmed, pixels missing>>: whole
\* blocks; whole blocks with the last 70 pixels of the buffer missing; 3
\* columns and 5 rows short of whole blocks; and images whose only painted
\* pixel is the top left one, of index 5
AseInputs ==
    {MkAse(8 * bw - t[1], 8 * bh - t[2],
           LAMBDA bx, by : PatternBlock(l[1], l[2], bx, by), t[3], l[1] % 2) :
        bw \in 1..MaxBlocksW, bh \in 1..MaxBlocksH,
        t \in {<<0, 0, 0>>, <<0, 0, 70>>, <<3, 5, 0>>}, l \in Layouts}
    \cup
    {MkAse(8 * bw, 8 * bh,
           LAMBDA bx, by : IF bx = 0 /\ by = 0
                               THEN MkTile(0, <<0, 0>>, 5, <<0, 0>>, 5)
                               ELSE BlankTile, 0, k) :
        bw \in 1..MaxBlocksW, bh \in 1..MaxBlocksH, k \in 1..2}

\* a raster: the blocks of a pattern painted with the colours of palette
\* ((bx + by + k0) % 4) of PalettesOf("hardware"), red raised by delta,
\* as w x h RGBA pixels
MkImage(w, h, k0, delta) ==
    [width  |-> w,
     height |-> h,
     data   |-> [i \in 1..(w * h * 4) |->
                   LET x  == ((i - 1) \div 4) % w
                       y  == ((i - 1) \div 4) \div w
                       bx == x \div 8
                       by == y \div 8
                       v  == PatternBlock(k0, <<1, 2>>, bx, by)[(y % 8) + 1][(x % 8) + 1] % 16
                       c  == PalettesOf("hardware")[((bx + by + k0) % 4) + 1][v + 1]
                   IN  CASE (i - 1) % 4 = 0 -> Min(255, c.r + delta)
                         [] (i - 1) % 4 = 1 -> c.g
                         [] (i - 1) % 4 = 2 -> c.b
                         [] OTHER -> IF v = 0 THEN 0 ELSE 255]]

\* the sizes of the rasters imported into a map of w x h cells: the size of
\* the map, one block row less, one block column less, and half a block
ImageSizes(w, h) ==
    {<<8 * w, 8 * h>>, <<4, 4>>}
    \cup (IF h > 1 THEN {<<8 * w, 8 * (h - 1)>>} ELSE {})
    \cup (IF w > 1 THEN {<<8 * (w - 1), 8 * h>>} ELSE {})

\* a document and the raster imported into it; pt is the first block kind
\* and the amount added to red; the last two documents have palettes off
\* the hardware levels and palettes that repeat
UpdateInputs ==
    UNION {{[jim   |-> MkJim("hardware", 1, 0, w, h, 1),
             image |-> MkImage(sz[1], sz[2], pt[1], pt[2])] :
                sz \in ImageSizes(w, h), pt \in {<<0, 0>>, <<8, 7>>}} :
           w \in 1..MaxBlocksW, h \in 1..MaxBlocksH}
    \cup {[jim   |-> MkJim("any", MaxTiles, 0, MaxBlocksW, 1, 4),
            image |-> MkImage(8 * MaxBlocksW, 8, 0, 7)],
           [jim   |-> MkJim("paired", 1, 0, MaxBlocksW, 1, 1),
            image |-> MkImage(8 * MaxBlocksW, 8, 8, 7)]}

\* the documents written; the last one has a map 65541 cells wide without
\* rows: its width does not fit the 16 bits of the map header
JimInputs ==
    {MkJim(kind, n, t0, w, h, c0) :
        kind \in {"hardware", "any"}, n \in 0..MaxTiles, t0 \in 0..1,
        w \in 0..MaxMapW, h \in 0..MaxMapH, c0 \in 0..(Len(CellKinds) - 1)}
    \cup {MkJim("hardware", 1, 0, 65541, 0, 0)}

\* the export modes and the palette selectors (-1: all four palettes)
Modes == {"map", "tileset"}
Selectors == -1..3

\* a document with one row of cells
RowJim == MkJim("any", MaxTiles, 0, MaxMapW, 1, 0)

\* documents whose tiles hold 4-bit values and whose cells point into the
\* arena: a tile, the blank tile and the mirror image of the first tile,
\* shown in maps of 1 x 1 and 3 x 2 cells with every palette line and flip,
\* the blank tile with palette lines 0 and 3
PictureJims ==
    {[palettes  |-> PalettesOf("hardware"),
      tiles     |-> <<MkTile(0, <<0, 0>>, 5, <<3, 4>>, 15), BlankTile,
                      MkTile(0, <<0, 7>>, 5, <<3, 3>>, 15)>>,
      mapWidth  |-> sz[1],
      mapHeight |-> sz[2],
      mapData   |-> [y \in 1..sz[2] |-> [x \in 1..sz[1] |->
                       LET n == (y - 1) * sz[1] + x + c0
                       IN  [tileIndex    |-> n % 3,
                            paletteIndex |-> (n \div 2) % 4,
                            hFlip        |-> n % 2 = 0,
                            vFlip        |-> (n \div 3) % 2 = 1,
                            priority     |-> n % 2 = 1]]]] :
        sz \in {<<1, 1>>, <<3, 2>>}, c0 \in {0, 4}}

\* the documents exported: a row of cells, a column of cells, a document
\* without tiles or cells, a document whose tiles fill more than one row of
\* 16, and a map of 8192 columns and no rows (a canvas 65536 pixels wide)
SpriteInputs ==
    {[jim |-> d, mode |-> m, activePaletteIdx |-> s, transparentBg |-> TRUE] :
        d \in {RowJim, MkJim("hardware", 1, 1, 1, MaxMapH, 3), MkJim("any", 0, 0, 0, 0, 0)},
        m \in Modes, s \in Selectors}
    \cup
    {[jim |-> RowJim, mode |-> m, activePaletteIdx |-> s, transparentBg |-> FALSE] :
        m \in Modes, s \in Selectors}
    \cup
    {[jim |-> d, mode |-> m, activePaletteIdx |-> s, transparentBg |-> TRUE] :
        d \in {MkJim("any", 17, 0, 1, 1, 1), MkJim("hardware", 1, 0, 8192, 0, 0)},
        m \in Modes, s \in {-1, 2}}
    \cup
    {[jim |-> d, mode |-> "map", activePaletteIdx |-> -1, transparentBg |-> TRUE] :
        d \in PictureJims}

\* DataView.setUint16(off, v, true) on a copy of buf
PutU16LE(buf, off, v) ==
    [i \in 1..Len(buf) |->
        IF i = off + 1 THEN v % 256
        ELSE IF i = off + 2 THEN (v \div 256) % 256
        ELSE buf[i]]

\* DataView.setUint32(off, v, true) on a copy of buf
PutU32LE(buf, off, v) ==
    [i \in 1..Len(buf) |->
        IF i > off /\ i <= off + 4 THEN U32LE(v)[i - off] ELSE buf[i]]

\* the ways the deflate payload of a cel is damaged: a byte of the checksum
\* changed, the compression method of the header changed, the complement of
\* the block length changed, the last four bytes missing, a byte appended
Damages == {"checksum", "method", "length", "cut", "junk"}

Damaged(z, damage) ==
    CASE damage = "checksum" -> [z EXCEPT ![Len(z)] = (z[Len(z)] + 1) % 256]
      [] damage = "method"   -> [z EXCEPT ![1] = 0]
      [] damage = "length"   -> [z EXCEPT ![6] = (z[6] + 1) % 256]
      [] damage = "cut"      -> SubSeq(z, 1, Len(z) - 4)
      [] OTHER               -> Append(z, 0)

\* the index every pixel of the damaged cel holds
StrayIndex == 77

\* a compressed-image cel over the whole w x h canvas, every pixel
\* StrayIndex, whose payload is damaged
BadCel(w, h, damage) ==
    CelChunk(w, h, Damaged(compressData([i \in 1..(w * h) |-> StrayIndex]), damage))

\* the file with one more chunk at offset `at`: the sizes and both chunk
\* counts of the headers follow
InsertChunk(buf, at, chunk) ==
    LET grown == SubSeq(buf, 1, at) \o chunk \o SubSeq(buf, at + 1, Len(buf))
    IN  PutU32LE(PutU16LE(PutU32LE(PutU32LE(grown, 0, Len(grown)),
                                   128, Len(grown) - 128),
                          134, GetU16LE(buf, 134) + 1),
                 140, GetU32LE(buf, 140) + 1)

\* the old 16-bit and the new 32-bit chunk count of the frame header
WithChunkCounts(buf, old, new) == PutU32LE(PutU16LE(buf, 134, old), 140, new)

\* where the damaged cel is put: before the first chunk, or after the last
Places == {"first", "last"}

WithBadCel(buf, place, damage) ==
    InsertChunk(buf, IF place = "first" THEN 144 ELSE Len(buf),
                BadCel(GetU16LE(buf, 8), GetU16LE(buf, 10), damage))

\* the bytes of a chunk given as a record of its fields: a compressed-image
\* cel of w x h pixels at the signed position (x, y), its payload damaged
\* or not (damage "no"), or a palette chunk of unnamed records for the
\* slots first, first + 1, ...
ChunkBytes(c) ==
    IF c.type = "cel"
    THEN LET z == compressData(c.pixels)
         IN  PutU16LE(PutU16LE(CelChunk(c.w, c.h,
                                        IF c.damage = "no" THEN z ELSE Damaged(z, c.damage)),
                               8, c.x), 10, c.y)
    ELSE PutU32LE(PutU32LE(PaletteChunk(c.colors, FALSE), 10, c.first),
                  14, c.first + Len(c.colors) - 1)

\* the runs of chunks put behind the chunks of an export whose canvas is
\* w x h: one cel that overhangs the top left corner, the right edge, the
\* bottom edge, lies inside, or lies beside the canvas; two cels that
\* overlap, the later one with pixels of index 0; a cel followed by a
\* damaged cel over the whole canvas; palette chunks that address the same
\* slots one after the other, and slots beyond 255; palette chunks and cels
\* mixed
ChunkRuns(w, h) ==
    LET cel(x, y, cw, ch, base, damage) ==
            [type |-> "cel", x |-> x, y |-> y, w |-> cw, h |-> ch, damage |-> damage,
             pixels |-> [i \in 1..(cw * ch) |-> IF i % 3 = 0 THEN 0 ELSE base + (i % 7)],
             first |-> 0, colors |-> <<>>]
        pal(first, n, base) ==
            [type |-> "palette", x |-> 0, y |-> 0, w |-> 0, h |-> 0, damage |-> "no",
             pixels |-> <<>>, first |-> first,
             colors |-> [i \in 1..n |-> [r |-> base + i, g |-> 2 * i, b |-> 255 - i]]]
    IN  {<<cel(-3, -2, 8, 5, 100, "no")>>,
         <<cel(w - 2, 1, 5, 3, 100, "no")>>,
         <<cel(2, h - 1, 3, 4, 100, "no")>>,
         <<cel(1, 1, 2, 2, 100, "no")>>,
         <<cel(w, 0, 2, 2, 100, "no")>>,
         <<cel(0, 0, 4, 4, 100, "no"), cel(2, 2, 4, 4, 200, "no")>>,
         <<cel(0, 0, 4, 4, 100, "no"), cel(0, 0, w, h, 200, "checksum")>>,
         <<pal(1, 3, 10), pal(2, 2, 20)>>,
         <<pal(254, 4, 30)>>,
         <<pal(1, 2, 40), cel(1, 0, 3, 3, 100, "no"), pal(0, 2, 50),
           cel(0, 1, 3, 3, 200, "no")>>}

(***************************************************************************)
(* Scenario: encode a colour, decode the word                               *)
(***************************************************************************)
InitColor ==
    /\ pc = "color"
    /\ color \in [r : Channels, g : Channels, b : Channels]
    /\ word = None /\ rgb = None
    /\ targetColor = None /\ paletteColors = None /\ nearest = None
    /\ IdleTile /\ IdleNative /\ IdleConv /\ IdleSprite

EncodeColor ==
    /\ pc = "color"
    /\ word' = rgbToGenesisColor(color)
    /\ pc' = "word"
    /\ UNCHANGED <<color, rgb, targetColor, paletteColors, nearest,
                   tileVars, nativeVars, convVars, spriteVars>>

DecodeColor ==
    /\ pc = "word"
    /\ rgb' = parseGenesisColor(word)
    /\ pc' = "rgb"
    /\ UNCHANGED <<color, word, targetColor, paletteColors, nearest,
                   tileVars, nativeVars, convVars, spriteVars>>

NextColor == EncodeColor \/ DecodeColor

SpecColor == InitColor /\ [][NextColor]_vars

(***************************************************************************)
(* Scenario: look a colour up in a palette                                  *)
(***************************************************************************)
InitNearest ==
    /\ pc = "target"
    /\ targetColor \in NearTargets
    /\ paletteColors \in NearPalettes
    /\ nearest = None
    /\ color = None /\ word = None /\ rgb = None
    /\ IdleTile /\ IdleNative /\ IdleConv /\ IdleSprite

\* findNearestColorWithDist(targetColor, paletteColors)
FindNearest ==
    /\ pc = "target"
    /\ nearest' = findNearestColorWithDist(targetColor, paletteColors)
    /\ pc' = "nearest"
    /\ UNCHANGED <<color, word, rgb, targetColor, paletteColors,
                   tileVars, nativeVars, convVars, spriteVars>>

NextNearest == FindNearest

SpecNearest == InitNearest /\ [][NextNearest]_vars

(***************************************************************************)
(* Scenario: encode and decode a tile, flip a tile twice                    *)
(***************************************************************************)
InitTile ==
    /\ pc = "tile"
    /\ \E bg \in {0, 21} : \E p1 \in TilePos, p2 \in TilePos :
       \* pixel values: 4-bit indices, and values with bits above the low four
       \E v1 \in {0, 5, 15, 16, 21, 255, 300}, v2 \in {5, 16} :
          tile = MkTile(bg, p1, v1, p2, v2)
    /\ data = None /\ pixels = None
    /\ variants = None /\ which = None /\ variants2 = None
    /\ rowStore = None /\ tileRows = None /\ variantRows = None
    /\ IdleColor /\ IdleNative /\ IdleConv /\ IdleSprite

EncodeTile ==
    /\ pc = "tile"
    /\ data' = encodeTile(tile)
    /\ pc' = "data"
    /\ UNCHANGED <<tile, pixels, variants, which, variants2, rowStore, tileRows,
                   variantRows, colorVars, nativeVars, convVars, spriteVars>>

DecodeTile ==
    /\ pc = "data"
    /\ pixels' = decodeTile(data)
    /\ pc' = "pixels"
    /\ UNCHANGED <<tile, data, variants, which, variants2, rowStore, tileRows,
                   variantRows, colorVars, nativeVars, convVars, spriteVars>>

FlipTile ==
    /\ pc = "tile"
    /\ variants' = getFlippedVariants(tile)
    /\ pc' = "flipped"
    /\ UNCHANGED <<tile, data, pixels, which, variants2, rowStore, tileRows,
                   variantRows, colorVars, nativeVars, convVars, spriteVars>>

FlipAgain ==
    /\ pc = "flipped"
    /\ \E w \in {"h", "v", "hv"} :
          /\ which' = w
          /\ variants2' = getFlippedVariants(variants[w])
    /\ pc' = "flipped2"
    /\ UNCHANGED <<tile, data, pixels, variants, rowStore, tileRows,
                   variantRows, colorVars, nativeVars, convVars, spriteVars>>

\* getFlippedVariants(tile), the rows of tile being the arrays 1..8
FlipStored ==
    /\ pc = "tile"
    /\ LET flipped == getFlippedVariantsStored(tile, [y \in 1..Len(tile) |-> y])
       IN  /\ rowStore' = flipped.store
           /\ variantRows' = [h |-> flipped.h, v |-> flipped.v, hv |-> flipped.hv]
    /\ tileRows' = [y \in 1..Len(tile) |-> y]
    /\ pc' = "stored"
    /\ UNCHANGED <<tile, data, pixels, variants, which, variants2,
                   colorVars, nativeVars, convVars, spriteVars>>

NextTile == EncodeTile \/ DecodeTile \/ FlipTile \/ FlipAgain \/ FlipStored

SpecTile == InitTile /\ [][NextTile]_vars

(***************************************************************************)
(* Scenario: write a .jim file, hand it (or a damaged copy) to the parser,  *)
(* write the parsed document again                                          *)
(***************************************************************************)
InitNative ==
    /\ pc = "jim"
    /\ jim \in JimInputs
    /\ file = None /\ buffer = None /\ parsed = None /\ rewritten = None
    /\ IdleColor /\ IdleTile /\ IdleConv /\ IdleSprite

\* createJimFile(jim); the bytes are what the parser is given next
WriteJim ==
    /\ pc = "jim"
    /\ ~createJimFileThrows(jim)
    /\ file' = createJimFile(jim)
    /\ buffer' = file'
    /\ pc' = "file"
    /\ UNCHANGED <<jim, parsed, rewritten, colorVars, tileVars, convVars, spriteVars>>

\* lengths at which a file is cut: inside the header, the tile table, the
\* palette table, the map header and the cells
CutPoints(buf) ==
    {n \in {4, 9, 20, 41, Len(buf) - 133, Len(buf) - 5, Len(buf) - 3,
            Len(buf) - 1} : n >= 0 /\ n < Len(buf)}

\* the file arrives cut short
TruncateFile ==
    /\ pc = "file"
    /\ \E n \in CutPoints(buffer) : buffer' = SubSeq(buffer, 1, n)
    /\ pc' = "damaged"
    /\ UNCHANGED <<jim, file, parsed, rewritten, colorVars, tileVars, convVars, spriteVars>>

\* the file is not one createJimFile wrote: its header counts more tiles
\* than the bytes before its palette table hold
DeclareMoreTiles ==
    /\ pc = "file"
    /\ \E extra \in {1, 5} :
          buffer' = [n \in 1..Len(buffer) |->
                        IF n \in 9..10
                        THEN U16BE(GetU16BE(buffer, 8) + extra)[n - 8]
                        ELSE buffer[n]]
    /\ pc' = "damaged"
    /\ UNCHANGED <<jim, file, parsed, rewritten, colorVars, tileVars, convVars, spriteVars>>

ParseJim ==
    /\ pc \in {"file", "damaged"}
    /\ parsed' = parseJimFile(buffer)
    /\ pc' = "parsed"
    /\ UNCHANGED <<jim, file, buffer, rewritten, colorVars, tileVars, convVars, spriteVars>>

RewriteJim ==
    /\ pc = "parsed"
    /\ parsed.ok
    /\ ~createJimFileThrows(parsed.doc)
    /\ rewritten' = createJimFile(parsed.doc)
    /\ pc' = "rewritten"
    /\ UNCHANGED <<jim, file, buffer, parsed, colorVars, tileVars, convVars, spriteVars>>

NextNative == WriteJim \/ TruncateFile \/ DeclareMoreTiles \/ ParseJim \/ RewriteJim

SpecNative == InitNative /\ [][NextNative]_vars

(***************************************************************************)
(* Scenario: convert a sprite document into a JimData, block by block       *)
(***************************************************************************)
InitConvert ==
    /\ pc = "ase"
    /\ ase \in AseInputs
    /\ forceUnique \in BOOLEAN
    /\ originalJim = None /\ imageData = None
    /\ palettes = None /\ mapWidth = None /\ mapHeight = None
    /\ newTiles = None /\ newMap = None /\ mapRow = None
    /\ mapX = None /\ mapY = None /\ result = None
    /\ IdleColor /\ IdleTile /\ IdleNative /\ IdleSprite

\* convertAsepriteToJim, lines 489-512: the palettes, the map size, the
\* empty arena
ConvertBegin ==
    /\ pc = "ase"
    /\ palettes' = convertPalettes(ase)
    /\ mapWidth' = CeilDiv8(ase.width)
    /\ mapHeight' = CeilDiv8(ase.height)
    /\ newTiles' = <<>> /\ newMap' = <<>> /\ mapRow' = <<>>
    /\ mapX' = 0 /\ mapY' = 0
    /\ pc' = "converting"
    /\ UNCHANGED <<ase, forceUnique, originalJim, imageData, result,
                   colorVars, tileVars, nativeVars, spriteVars>>

\* a pass that puts a new tile in front of the arena instead of behind it
ConvertBlockPrepend ==
    /\ pc = "converting" /\ mapY < mapHeight /\ mapX < mapWidth
    /\ LET tileIndices    == BlockIndices(ase, mapX, mapY)
           bestPalette    == BestPalette(tileIndices)
           normalizedTile == NormalizedTile(tileIndices, bestPalette)
           existing       == Deduplicate(forceUnique, newTiles, normalizedTile)
       IN  /\ newTiles' = IF existing.found THEN newTiles
                          ELSE <<normalizedTile>> \o newTiles
           /\ mapRow' = Append(mapRow,
                  [tileIndex    |-> IF existing.found THEN existing.index ELSE 0,
                   paletteIndex |-> bestPalette,
                   hFlip        |-> existing.hFlip,
                   vFlip        |-> existing.vFlip,
                   priority     |-> FALSE])
    /\ mapX' = mapX + 1
    /\ UNCHANGED <<pc, ase, forceUnique, originalJim, imageData, palettes, mapWidth,
                   mapHeight, newMap, mapY, result, colorVars, tileVars, nativeVars, spriteVars>>

\* one pass of the inner loop, lines 530-621
ConvertBlock ==
    /\ pc = "converting" /\ mapY < mapHeight /\ mapX < mapWidth
    /\ LET tileIndices    == BlockIndices(ase, mapX, mapY)
           bestPalette    == BestPalette(tileIndices)
           normalizedTile == NormalizedTile(tileIndices, bestPalette)
           existing       == Deduplicate(forceUnique, newTiles, normalizedTile)
       IN  /\ newTiles' = IF existing.found THEN newTiles
                          ELSE Append(newTiles, normalizedTile)
           /\ mapRow' = Append(mapRow,
                  [tileIndex    |-> IF existing.found THEN existing.index ELSE Len(newTiles),
                   paletteIndex |-> bestPalette,
                   hFlip        |-> existing.hFlip,
                   vFlip        |-> existing.vFlip,
                   priority     |-> FALSE])
    /\ mapX' = mapX + 1
    /\ UNCHANGED <<pc, ase, forceUnique, originalJim, imageData, palettes, mapWidth,
                   mapHeight, newMap, mapY, result, colorVars, tileVars, nativeVars, spriteVars>>

\* the end of the inner loop: newMap.push(row)
ConvertEndRow ==
    /\ pc = "converting" /\ mapY < mapHeight /\ mapX = mapWidth
    /\ newMap' = Append(newMap, mapRow)
    /\ mapRow' = <<>>
    /\ mapX' = 0
    /\ mapY' = mapY + 1
    /\ UNCHANGED <<pc, ase, forceUnique, originalJim, imageData, palettes, mapWidth,
                   mapHeight, newTiles, result, colorVars, tileVars, nativeVars, spriteVars>>

\* lines 625-631
ConvertReturn ==
    /\ pc = "converting" /\ mapY = mapHeight
    /\ result' = [ok |-> TRUE,
                  doc |-> [palettes |-> palettes, tiles |-> newTiles,
                           mapWidth |-> mapWidth, mapHeight |-> mapHeight,
                           mapData |-> newMap]]
    /\ pc' = "converted"
    /\ UNCHANGED <<ase, forceUnique, originalJim, imageData, palettes, mapWidth,
                   mapHeight, newTiles, newMap, mapRow, mapX, mapY,
                   colorVars, tileVars, nativeVars, spriteVars>>

(***************************************************************************)
(* Scenario: import a raster into a JimData, block by block                 *)
(***************************************************************************)
InitUpdate ==
    /\ pc = "image"
    /\ \E u \in UpdateInputs : originalJim = u.jim /\ imageData = u.image
    /\ ase = None /\ forceUnique = None
    /\ palettes = None /\ mapWidth = None /\ mapHeight = None
    /\ newTiles = None /\ newMap = None /\ mapRow = None
    /\ mapX = None /\ mapY = None /\ result = None
    /\ IdleColor /\ IdleTile /\ IdleNative /\ IdleSprite

\* updateJimFromImage, lines 380-387
UpdateBegin ==
    /\ pc = "image"
    /\ palettes' = originalJim.palettes
    /\ mapWidth' = originalJim.mapWidth
    /\ mapHeight' = originalJim.mapHeight
    /\ newTiles' = <<>> /\ newMap' = <<>> /\ mapRow' = <<>>
    /\ mapX' = 0 /\ mapY' = 0
    /\ pc' = "updating"
    /\ UNCHANGED <<ase, forceUnique, originalJim, imageData, result,
                   colorVars, tileVars, nativeVars, spriteVars>>

\* one pass of the inner loop, lines 407-477
UpdateBlock ==
    /\ pc = "updating" /\ mapY < mapHeight /\ mapX < mapWidth
    /\ LET best     == BestFit(BlockPixels(imageData, mapX, mapY), originalJim.palettes)
           existing == findExistingTile(newTiles, best.bestTileIndices)
       IN  /\ ~findExistingTileThrows(newTiles, best.bestTileIndices)
           /\ newTiles' = IF existing.found THEN newTiles
                          ELSE Append(newTiles, best.bestTileIndices)
           /\ mapRow' = Append(mapRow,
                  [tileIndex    |-> IF existing.found THEN existing.index ELSE Len(newTiles),
                   paletteIndex |-> best.bestPaletteIdx,
                   hFlip        |-> existing.hFlip,
                   vFlip        |-> existing.vFlip,
                   priority     |-> FALSE])
    /\ mapX' = mapX + 1
    /\ UNCHANGED <<pc, ase, forceUnique, originalJim, imageData, palettes, mapWidth,
                   mapHeight, newMap, mapY, result, colorVars, tileVars, nativeVars, spriteVars>>

\* the pass in which findExistingTile throws: the exception leaves the function
UpdateBlockThrows ==
    /\ pc = "updating" /\ mapY < mapHeight /\ mapX < mapWidth
    /\ findExistingTileThrows(newTiles,
           BestFit(BlockPixels(imageData, mapX, mapY), originalJim.palettes).bestTileIndices)
    /\ result' = TypeError
    /\ pc' = "threw"
    /\ UNCHANGED <<ase, forceUnique, originalJim, imageData, palettes, mapWidth,
                   mapHeight, newTiles, newMap, mapRow, mapX, mapY,
                   colorVars, tileVars, nativeVars, spriteVars>>

\* the end of the inner loop: newMap.push(mapRow)
UpdateEndRow ==
    /\ pc = "updating" /\ mapY < mapHeight /\ mapX = mapWidth
    /\ newMap' = Append(newMap, mapRow)
    /\ mapRow' = <<>>
    /\ mapX' = 0
    /\ mapY' = mapY + 1
    /\ UNCHANGED <<pc, ase, forceUnique, originalJim, imageData, palettes, mapWidth,
                   mapHeight, newTiles, result, colorVars, tileVars, nativeVars, spriteVars>>

\* lines 481-485
UpdateReturn ==
    /\ pc = "updating" /\ mapY = mapHeight
    /\ result' = [ok |-> TRUE,
                  doc |-> UpdatedJim(originalJim, newTiles, newMap)]
    /\ pc' = "updated"
    /\ UNCHANGED <<ase, forceUnique, originalJim, imageData, palettes, mapWidth,
                   mapHeight, newTiles, newMap, mapRow, mapX, mapY,
                   colorVars, tileVars, nativeVars, spriteVars>>

Init == InitConvert \/ InitUpdate

Next ==
    \/ ConvertBegin \/ ConvertBlock \/ ConvertEndRow \/ ConvertReturn
    \/ UpdateBegin \/ UpdateBlock \/ UpdateBlockThrows \/ UpdateEndRow \/ UpdateReturn

Spec == Init /\ [][Next]_vars

(***************************************************************************)
(* Scenario: convert a sprite document, save the result as a .jim file,     *)
(* load the file                                                            *)
(***************************************************************************)
\* one block more than the 11 bits of a cell's tile index count
ManyBlocks == 2049

\* the conversions saved: images of whole blocks with either setting, and a
\* row of pixels ManyBlocks blocks wide, block bx painted with index
\* (bx % 15) + 1 at its first pixel, converted without deduplication
SaveInputs ==
    {[ase |-> MkAse(8 * bw, 8 * bh,
                    LAMBDA bx, by : PatternBlock(k0, <<1, 2>>, bx, by), 0, 1),
      forceUnique |-> u] :
        bw \in 1..MaxBlocksW, bh \in 1..MaxBlocksH, k0 \in {0, 2, 4, 6, 8, 10},
        u \in BOOLEAN}
    \cup
    {[ase |-> MkAse(8 * ManyBlocks - 7, 1,
                    LAMBDA bx, by : MkTile(0, <<0, 0>>, (bx % 15) + 1,
                                           <<0, 0>>, (bx % 15) + 1), 0, 1),
      forceUnique |-> TRUE]}

InitSave ==
    /\ pc = "ase"
    /\ \E inp \in SaveInputs : ase = inp.ase /\ forceUnique = inp.forceUnique
    /\ originalJim = None /\ imageData = None
    /\ palettes = None /\ mapWidth = None /\ mapHeight = None
    /\ newTiles = None /\ newMap = None /\ mapRow = None
    /\ mapX = None /\ mapY = None /\ result = None
    /\ IdleColor /\ IdleTile /\ IdleNative /\ IdleSprite

\* convertAsepriteToJim(ase, forceUnique)
ConvertWhole ==
    /\ pc = "ase"
    /\ result' = convertAsepriteToJim(ase, forceUnique)
    /\ pc' = "converted"
    /\ UNCHANGED <<ase, forceUnique, originalJim, imageData, palettes, mapWidth,
                   mapHeight, newTiles, newMap, mapRow, mapX, mapY,
                   colorVars, tileVars, nativeVars, spriteVars>>

\* createJimFile(jimData) on the converted document
SaveConverted ==
    /\ pc = "converted"
    /\ ~createJimFileThrows(result.doc)
    /\ file' = createJimFile(result.doc)
    /\ buffer' = file'
    /\ pc' = "saved"
    /\ UNCHANGED <<jim, parsed, rewritten, colorVars, tileVars, convVars, spriteVars>>

\* parseJimFile on the bytes saved
ReloadConverted ==
    /\ pc = "saved"
    /\ parsed' = parseJimFile(buffer)
    /\ pc' = "reloaded"
    /\ UNCHANGED <<jim, file, buffer, rewritten, colorVars, tileVars, convVars, spriteVars>>

NextSave == ConvertWhole \/ SaveConverted \/ ReloadConverted

SpecSave == InitSave /\ [][NextSave]_vars

(***************************************************************************)
(* Scenario: a document exported as a sprite file, the file read back,     *)
(* also after damage to the fields the parser validates                     *)
(***************************************************************************)
InitSprite ==
    /\ pc = "sprite"
    /\ \E inp \in SpriteInputs :
          /\ jim = inp.jim
          /\ mode = inp.mode
          /\ activePaletteIdx = inp.activePaletteIdx
          /\ transparentBg = inp.transparentBg
    /\ blob = None /\ aseBuffer = None /\ aseParsed = None
    /\ appended = <<>>
    /\ file = None /\ buffer = None /\ parsed = None /\ rewritten = None
    /\ IdleColor /\ IdleTile /\ IdleConv

\* createAsepriteBlob(jim, mode, activePaletteIdx, transparentBg); the bytes
\* of the Blob are what the parser is given next
ExportSprite ==
    /\ pc = "sprite"
    /\ blob' = createAsepriteBlob(jim, mode, activePaletteIdx, transparentBg)
    /\ aseBuffer' = blob'
    /\ pc' = "exported"
    /\ UNCHANGED <<mode, activePaletteIdx, transparentBg, aseParsed, appended,
                   colorVars, tileVars, nativeVars, convVars>>

\* the file is not one createAsepriteBlob wrote: its magic is byte-swapped
CorruptMagic ==
    /\ pc \in {"exported", "corrupted"}
    /\ CanRead(aseBuffer, 4, 2) /\ GetU16LE(aseBuffer, 4) = 42464
    /\ aseBuffer' = PutU16LE(aseBuffer, 4, 57509)
    /\ pc' = "corrupted"
    /\ UNCHANGED <<mode, activePaletteIdx, transparentBg, blob, aseParsed, appended,
                   colorVars, tileVars, nativeVars, convVars>>

\* its bit depth is 16
CorruptDepth ==
    /\ pc \in {"exported", "corrupted"}
    /\ CanRead(aseBuffer, 12, 2) /\ GetU16LE(aseBuffer, 12) = 8
    /\ aseBuffer' = PutU16LE(aseBuffer, 12, 16)
    /\ pc' = "corrupted"
    /\ UNCHANGED <<mode, activePaletteIdx, transparentBg, blob, aseParsed, appended,
                   colorVars, tileVars, nativeVars, convVars>>

\* the magic of its frame header is byte-swapped
CorruptFrameMagic ==
    /\ pc \in {"exported", "corrupted"}
    /\ CanRead(aseBuffer, 132, 2) /\ GetU16LE(aseBuffer, 132) = 61946
    /\ aseBuffer' = PutU16LE(aseBuffer, 132, 64241)
    /\ pc' = "corrupted"
    /\ UNCHANGED <<mode, activePaletteIdx, transparentBg, blob, aseParsed, appended,
                   colorVars, tileVars, nativeVars, convVars>>

\* it is cut short: inside the magic, inside the bit depth, one byte before
\* the end of the frame header, inside the first chunk
TruncateSprite ==
    /\ pc \in {"exported", "corrupted"}
    /\ \E cut \in {5, 13, 143, 150} :
          /\ cut < Len(aseBuffer)
          /\ aseBuffer' = SubSeq(aseBuffer, 1, cut)
    /\ pc' = "corrupted"
    /\ UNCHANGED <<mode, activePaletteIdx, transparentBg, blob, aseParsed, appended,
                   colorVars, tileVars, nativeVars, convVars>>

\* the file is not one createAsepriteBlob wrote: it holds one more cel, whose
\* deflate payload is damaged
InsertBadCel ==
    /\ pc = "exported"
    /\ \E place \in Places, damage \in Damages :
          aseBuffer' = WithBadCel(aseBuffer, place, damage)
    /\ pc' = "altered"
    /\ UNCHANGED <<mode, activePaletteIdx, transparentBg, blob, aseParsed, appended,
                   colorVars, tileVars, nativeVars, convVars>>

\* the file is not one createAsepriteBlob wrote: the two chunk counts of
\* its frame header differ from the number of chunks it holds (three);
\* 0xFFFF is what a writer with more chunks than the old field holds puts
\* there
SetChunkCounts ==
    /\ pc = "exported"
    /\ \E old \in {0, 1, 3, 65535}, new \in {0, 1, 3, 4} :
          /\ <<old, new>> # <<GetU16LE(aseBuffer, 134), GetU32LE(aseBuffer, 140)>>
          /\ aseBuffer' = WithChunkCounts(aseBuffer, old, new)
    /\ pc' = "altered"
    /\ UNCHANGED <<mode, activePaletteIdx, transparentBg, blob, aseParsed, appended,
                   colorVars, tileVars, nativeVars, convVars>>

\* the file is not one createAsepriteBlob wrote: more cels and palette
\* chunks follow the three chunks of the export
AppendChunks ==
    /\ pc = "exported"
    /\ \E run \in ChunkRuns(GetU16LE(aseBuffer, 8), GetU16LE(aseBuffer, 10)) :
          LET grown[k \in 0..Len(run)] ==
                  IF k = 0 THEN aseBuffer
                  ELSE InsertChunk(grown[k - 1], Len(grown[k - 1]), ChunkBytes(run[k]))
          IN  /\ aseBuffer' = grown[Len(run)]
              /\ appended' = run
    /\ pc' = "altered"
    /\ UNCHANGED <<mode, activePaletteIdx, transparentBg, blob, aseParsed,
                   colorVars, tileVars, nativeVars, convVars>>

\* parseAseprite(aseBuffer)
ParseSprite ==
    /\ pc \in {"exported", "corrupted", "altered"}
    /\ aseParsed' = parseAseprite(aseBuffer)
    /\ pc' = "read"
    /\ UNCHANGED <<mode, activePaletteIdx, transparentBg, blob, aseBuffer, appended,
                   colorVars, tileVars, nativeVars, convVars>>

\* convertAsepriteToJim(parsed, forceUnique) on the document parsed from
\* the file as it was exported
ConvertParsed ==
    /\ pc = "read" /\ aseBuffer = blob
    /\ aseParsed.ok
    /\ \E u \in BOOLEAN :
          /\ forceUnique' = u
          /\ result' = convertAsepriteToJim(aseParsed.doc, u)
    /\ pc' = "reconverted"
    /\ UNCHANGED <<ase, originalJim, imageData, palettes, mapWidth, mapHeight,
                   newTiles, newMap, mapRow, mapX, mapY,
                   colorVars, tileVars, nativeVars, spriteVars>>

NextSprite ==
    \/ ExportSprite \/ CorruptMagic \/ CorruptDepth \/ CorruptFrameMagic
    \/ TruncateSprite \/ InsertBadCel \/ SetChunkCounts \/ AppendChunks
    \/ ParseSprite \/ ConvertParsed

SpecSprite == InitSprite /\ [][NextSprite]_vars

(***************************************************************************)
(* C1                                                                       *)
(***************************************************************************)
Field(ch) == Min(7, ch \div 36)

\* C1: the word of a colour with channels in 0..255 holds floor(ch/36),
\* clamped to 7, in bits 1-3 (r), 5-7 (g) and 9-11 (b) and nothing else;
\* decoding it gives 36 * min(7, floor(ch/36)) per channel, never more than
\* the input channel, and the input itself when it is on the hardware levels.
C1_EncodeDecode ==
    /\ pc \in {"word", "rgb"} =>
          /\ (word \div 2) % 8 = Field(color.r)
          /\ (word \div 32) % 8 = Field(color.g)
          /\ (word \div 512) % 8 = Field(color.b)
          /\ word = 2 * Field(color.r) + 32 * Field(color.g) + 512 * Field(color.b)
    /\ pc = "rgb" =>
          /\ rgb.r = 36 * Field(color.r) /\ rgb.r <= color.r
          /\ rgb.g = 36 * Field(color.g) /\ rgb.g <= color.g
          /\ rgb.b = 36 * Field(color.b) /\ rgb.b <= color.b
          /\ ({color.r, color.g, color.b} \subseteq HardwareLevels => rgb = color)

\* a colour off the levels was encoded and decoded, and came back lower
C1_Witness ==
    /\ pc = "rgb"
    /\ color = [r |-> 255, g |-> 36, b |-> 128]
    /\ rgb = [r |-> 252, g |-> 36, b |-> 108]

(***************************************************************************)
(* C2                                                                       *)
(***************************************************************************)
Low4(v) == v % 16

\* C2: decodeTile(encodeTile(t)) is t with every value reduced to its low
\* four bits, hence t itself when all values are in 0..15; byte k of the
\* encoding is (pixel[2k] & 15) << 4 | (pixel[2k+1] & 15) over the row-major
\* pixels, and encoding never fails.
C2_TileRoundTrip ==
    /\ pc \in {"data", "pixels"} =>
          /\ Len(data) = 32
          /\ \A k \in 0..31 :
                At(data, k) =
                    16 * Low4(At(At(tile, (2 * k) \div 8), (2 * k) % 8))
                    + Low4(At(At(tile, (2 * k + 1) \div 8), (2 * k + 1) % 8))
    /\ pc = "pixels" =>
          /\ \A y \in 1..8 : \A x \in 1..8 : pixels[y][x] = Low4(tile[y][x])
          /\ ((\A y \in 1..8 : \A x \in 1..8 : tile[y][x] \in 0..15) => pixels = tile)

\* a tile holding 21 and 300 was encoded and decoded
C2_Witness ==
    /\ pc = "pixels"
    /\ tile[1][1] = 300 /\ tile[3][6] = 16 /\ tile[8][8] = 21
    /\ pixels[1][1] = 12 /\ pixels[3][6] = 0 /\ pixels[8][8] = 5

\* a tile of 4-bit values survived the round trip
C2_WitnessExact ==
    /\ pc = "pixels"
    /\ tile[1][1] = 15 /\ tile[1][8] = 5 /\ tile[4][4] = 0
    /\ pixels = tile

(***************************************************************************)
(* C3                                                                       *)
(***************************************************************************)
\* C3: flipping horizontally twice, or vertically twice, gives the tile
\* back, and the both-axes variant is the vertical flip of the horizontal
\* flip and the horizontal flip of the vertical flip.
C3_FlipInvolution ==
    pc = "flipped2" =>
        /\ which = "h" => variants2.h = tile /\ variants2.v = variants.hv
        /\ which = "v" => variants2.v = tile /\ variants2.h = variants.hv
        /\ which = "hv" => variants2.hv = tile

\* an asymmetric tile was flipped horizontally twice
C3_Witness ==
    /\ pc = "flipped2" /\ which = "h"
    /\ tile[1][1] = 5 /\ tile[1][8] = 0 /\ tile[8][1] = 0 /\ tile[8][8] = 0
    /\ variants.h[1][8] = 5 /\ variants.v[8][1] = 5 /\ variants.hv[8][8] = 5
    /\ variants2.h[1][1] = 5

TruncatedLayout(buf) ==
    \/ Len(buf) < HeaderSize
    \/ /\ Len(buf) >= HeaderSize
       /\ \/ HeaderSize + GetU16BE(buf, 8) * TileBytes > Len(buf)
          \/ GetU32BE(buf, 0) + PaletteTableSize > Len(buf)
          \/ GetU32BE(buf, 4) + 4 > Len(buf)
          \/ /\ GetU32BE(buf, 4) + 4 <= Len(buf)
             /\ GetU32BE(buf, 4) + 4
                  + 2 * GetU16BE(buf, GetU32BE(buf, 4)) * GetU16BE(buf, GetU32BE(buf, 4) + 2)
                > Len(buf)

\* C8: parsing fails whenever a byte of the header, of the N tiles from
\* offset 10, of the palette table or of the map header and cells that the
\* header declares lies beyond the end of the buffer.
C8_TruncationFails ==
    (pc = "parsed" /\ TruncatedLayout(buffer)) => ~parsed.ok

\* the part of C8 that the parser honours: a header, palette table, map
\* header or cell beyond the end of the buffer is a failure
C8_DataViewReadsFail ==
    (pc = "parsed"
     /\ (\/ Len(buffer) < HeaderSize
         \/ /\ Len(buffer) >= HeaderSize
            /\ \/ GetU32BE(buffer, 0) + PaletteTableSize > Len(buffer)
               \/ GetU32BE(buffer, 4) + 4 > Len(buffer)))
    => ~parsed.ok

(***************************************************************************)
(* C6                                                                       *)
(***************************************************************************)
\* the source image is two blocks side by side, the right one the left one
\* turned by 180 degrees, all indices in bank 0
TwinImage ==
    /\ ase.width = 16 /\ ase.height = 8 /\ Len(ase.pixels) = 128
    /\ \A x \in 0..15, y \in 0..7 :
          /\ At(ase.pixels, y * 16 + x) = At(ase.pixels, (7 - y) * 16 + (15 - x))
          /\ At(ase.pixels, y * 16 + x) \in 0..15

LeftBlock == BlockIndices(ase, 0, 0)

\* the left block differs from each of its own flips
NoSymmetry(t) ==
    /\ t # getFlippedVariants(t).h
    /\ t # getFlippedVariants(t).v
    /\ t # getFlippedVariants(t).hv

Cell(doc, x, y) == doc.mapData[y + 1][x + 1]

\* C6 as stated: for every tile T, T and its twin give one arena entry, two
\* cells of the same tileIndex, one of them with hFlip = vFlip = true.
C6_TwinAlwaysBothFlips ==
    (pc = "converted" /\ ~forceUnique /\ TwinImage) =>
        /\ Len(result.doc.tiles) = 1
        /\ Cell(result.doc, 0, 0).tileIndex = Cell(result.doc, 1, 0).tileIndex
        /\ \E x \in 0..1 : Cell(result.doc, x, 0).hFlip /\ Cell(result.doc, x, 0).vFlip

\* C6 (amended): T and its twin give one arena entry and two cells of the
\* same tileIndex; the twin's cell has hFlip = vFlip = true when T differs
\* from its horizontal flip, its vertical flip and its half turn, and
\* otherwise carries the first of exact, h, v that reproduces the twin.
C6_TwinDedup ==
    (pc = "converted" /\ ~forceUnique /\ TwinImage) =>
        /\ Len(result.doc.tiles) = 1
        /\ Cell(result.doc, 0, 0).tileIndex = 0
        /\ Cell(result.doc, 1, 0).tileIndex = 0
        /\ ~Cell(result.doc, 0, 0).hFlip /\ ~Cell(result.doc, 0, 0).vFlip
        /\ NoSymmetry(LeftBlock) =>
              Cell(result.doc, 1, 0).hFlip /\ Cell(result.doc, 1, 0).vFlip
        /\ LeftBlock = getFlippedVariants(LeftBlock).hv =>
              ~Cell(result.doc, 1, 0).hFlip /\ ~Cell(result.doc, 1, 0).vFlip
        /\ (LeftBlock # getFlippedVariants(LeftBlock).hv
            /\ LeftBlock = getFlippedVariants(LeftBlock).v) =>
              Cell(result.doc, 1, 0).hFlip /\ ~Cell(result.doc, 1, 0).vFlip
        /\ (LeftBlock # getFlippedVariants(LeftBlock).hv
            /\ LeftBlock = getFlippedVariants(LeftBlock).h) =>
              ~Cell(result.doc, 1, 0).hFlip /\ Cell(result.doc, 1, 0).vFlip

\* a tile without symmetry and its twin were converted into one tile, the
\* twin's cell flipped on both axes
C6_Witness ==
    /\ pc = "converted" /\ ~forceUnique /\ TwinImage
    /\ NoSymmetry(LeftBlock)
    /\ Len(result.doc.tiles) = 1
    /\ Cell(result.doc, 1, 0).hFlip /\ Cell(result.doc, 1, 0).vFlip

(***************************************************************************)
(* C7                                                                       *)
(***************************************************************************)
\* the 16x16 document whose only non-zero pixel is index 5 at (0,0)
SinglePixelImage ==
    /\ ase.width = 16 /\ ase.height = 16 /\ Len(ase.pixels) = 256
    /\ ase.pixels[1] = 5
    /\ \A i \in 2..256 : ase.pixels[i] = 0

NonBlankTiles(doc) == {i \in 1..Len(doc.tiles) : doc.tiles[i] # BlankTile}

\* C7 as stated: ... and tileIndex 0 on the three cells of the blank blocks.
C7_BlankCellsIndexZero ==
    (pc = "converted" /\ ~forceUnique /\ SinglePixelImage) =>
        /\ result.doc.mapWidth = 2 /\ result.doc.mapHeight = 2
        /\ Cell(result.doc, 0, 0).paletteIndex = 0
        /\ result.doc.tiles[Cell(result.doc, 0, 0).tileIndex + 1][1][1] = 5
        /\ Cardinality(NonBlankTiles(result.doc)) = 1
        /\ Cell(result.doc, 1, 0).tileIndex = 0
        /\ Cell(result.doc, 0, 1).tileIndex = 0
        /\ Cell(result.doc, 1, 1).tileIndex = 0

\* C7 (amended): the map is 2x2; the cell of block (0,0) has paletteIndex 0
\* and tileIndex 0, and tile 0 has value 5 at row 0 column 0; exactly one
\* tile is not all zeros; the three blank blocks share tileIndex 1, the
\* blank tile appended second, and the arena holds two tiles.
C7_SinglePixel ==
    (pc = "converted" /\ ~forceUnique /\ SinglePixelImage) =>
        /\ result.doc.mapWidth = 2 /\ result.doc.mapHeight = 2
        /\ Cell(result.doc, 0, 0).paletteIndex = 0
        /\ Cell(result.doc, 0, 0).tileIndex = 0
        /\ result.doc.tiles[1][1][1] = 5
        /\ Cardinality(NonBlankTiles(result.doc)) = 1
        /\ Len(result.doc.tiles) = 2
        /\ result.doc.tiles[2] = BlankTile
        /\ Cell(result.doc, 1, 0).tileIndex = 1
        /\ Cell(result.doc, 0, 1).tileIndex = 1
        /\ Cell(result.doc, 1, 1).tileIndex = 1

\* the single-pixel document was converted with deduplication
C7_Witness ==
    /\ pc = "converted" /\ ~forceUnique /\ SinglePixelImage
    /\ Len(result.doc.tiles) = 2
    /\ Cell(result.doc, 1, 1).tileIndex = 1

(***************************************************************************)
(* C9                                                                       *)
(***************************************************************************)
\* the pixel buffer of the sprite document is shorter than width x height
ShortPixels == Len(ase.pixels) < ase.width * ase.height

\* the raster does not cover the 8*mapWidth x 8*mapHeight pixels of the map
ShortRaster ==
    \/ imageData.width < 8 * originalJim.mapWidth
    \/ imageData.height < 8 * originalJim.mapHeight

WellFormedTile(t) ==
    /\ Len(t) = TileSize
    /\ \A y \in 1..TileSize : Len(t[y]) = TileSize /\ \A x \in 1..TileSize : t[y][x] \in 0..15

\* C9: given a pixel buffer shorter than the declared size (for the raster,
\* shorter than the map), each conversion ends in an error and returns no
\* document.
C9_ShortInputFails ==
    /\ (pc = "converted" /\ ShortPixels) => ~result.ok
    /\ (pc = "updated" /\ ShortRaster) => ~result.ok

\* C9, for the sprite conversion alone
C9_ShortPixelsFail ==
    (pc = "converted" /\ ShortPixels) => ~result.ok

\* C9, for the raster import alone: no document with a malformed tile
C9_NoMalformedTile ==
    (pc = "updated" /\ ShortRaster) =>
        \A i \in 1..Len(result.doc.tiles) : WellFormedTile(result.doc.tiles[i])

(***************************************************************************)
(* C5                                                                       *)
(***************************************************************************)
\* what createAsepriteBlob composed for the exported document
Canvas == ComposeCanvas(jim, mode, activePaletteIdx)

\* the file read is the file written
ReadBack == pc = "read" /\ aseBuffer = blob

\* the parsed document has the size, the index buffer and the first n
\* palette entries of the canvas
SameAsCanvas ==
    /\ aseParsed.ok
    /\ aseParsed.doc.width = Canvas.width
    /\ aseParsed.doc.height = Canvas.height
    /\ aseParsed.doc.pixels = Canvas.pixels
    /\ \A i \in 1..Len(Canvas.palette) : aseParsed.doc.palette[i] = Canvas.palette[i]

\* C5 as stated: for every NativeDocument, mode and selector, parsing the
\* exported bytes yields the width, height and index buffer of the exported
\* canvas and the n colours of the exported palette, unchanged.
C5_EveryDocument == ReadBack => SameAsCanvas

\* C5 (amended): for every NativeDocument whose canvas is less than 65536
\* pixels wide and high (mapWidth and mapHeight below 8192 in map mode),
\* every mode and every selector, parsing the exported bytes yields the
\* width, height and index buffer of the exported canvas and the n colours
\* of the exported palette, unchanged; the file header holds the width and
\* height modulo 65536, which is what the parser returns beyond that.
C5_ExportParse ==
    ReadBack =>
        /\ (Canvas.width < 65536 /\ Canvas.height < 65536) => SameAsCanvas
        /\ aseParsed.ok
        /\ aseParsed.doc.width = Canvas.width % 65536
        /\ aseParsed.doc.height = Canvas.height % 65536

\* a map of unequal sides was exported with all four palettes and read
\* back: indices of 16 and above, and a colour off the hardware levels
C5_Witness ==
    /\ ReadBack /\ mode = "map" /\ activePaletteIdx = -1
    /\ Canvas.width # Canvas.height
    /\ Len(Canvas.palette) = 64
    /\ \E i \in 1..Len(Canvas.pixels) : aseParsed.doc.pixels[i] >= 16
    /\ \E i \in 1..64 : aseParsed.doc.palette[i].r % 36 # 0
    /\ SameAsCanvas

(***************************************************************************)
(* C10                                                                      *)
(***************************************************************************)
MagicOk      == CanRead(aseBuffer, 4, 2) /\ GetU16LE(aseBuffer, 4) = 42464
DepthOk      == CanRead(aseBuffer, 12, 2) /\ GetU16LE(aseBuffer, 12) = 8
LongEnough   == Len(aseBuffer) >= 144
FrameMagicOk == CanRead(aseBuffer, 132, 2) /\ GetU16LE(aseBuffer, 132) = 61946

Failed(message) == ~aseParsed.ok /\ aseParsed.error = message

\* C10: parseAseprite fails when the value at offset 4 is not 0xA5E0, when
\* the bit depth at offset 12 is not 8, when the buffer is shorter than 144
\* bytes, or when the value at offset 132 is not 0xF1FA; the first of the
\* four that applies, in this order, is the one reported, whatever the
\* chunks contain.
C10_HeaderChecks ==
    pc = "read" =>
        /\ ~(MagicOk /\ DepthOk /\ LongEnough /\ FrameMagicOk) => ~aseParsed.ok
        /\ (CanRead(aseBuffer, 4, 2) /\ ~MagicOk) =>
              Failed("Invalid Aseprite file header")
        /\ (MagicOk /\ CanRead(aseBuffer, 12, 2) /\ ~DepthOk) =>
              Failed("Only 8bpp (Indexed) Aseprite files are supported")
        /\ (MagicOk /\ DepthOk /\ ~LongEnough) =>
              Failed("File too short for frame header")
        /\ (MagicOk /\ DepthOk /\ LongEnough /\ ~FrameMagicOk) =>
              Failed("Invalid Frame header")

\* a file with a wrong bit depth and a wrong frame magic was refused for its
\* bit depth
C10_Witness ==
    /\ pc = "read"
    /\ MagicOk /\ LongEnough
    /\ CanRead(aseBuffer, 12, 2) /\ ~DepthOk /\ ~FrameMagicOk
    /\ Failed("Only 8bpp (Indexed) Aseprite files are supported")

(***************************************************************************)
(* C11                                                                      *)
(***************************************************************************)
\* the file read is the file written plus a cel whose payload is damaged
BadCelRead(place) ==
    /\ pc = "read"
    /\ Len(aseBuffer) > Len(blob) /\ Len(appended) = 0
    /\ \E damage \in Damages : aseBuffer = WithBadCel(blob, place, damage)

\* C11: when the deflate payload of a compressed-image cel fails to
\* decompress, parseAseprite still succeeds; the cel changes no pixel of the
\* canvas, and the chunks after it (the palette chunk and the cel of the
\* export) are processed as if it were absent: the parse returns what it
\* returns for the file without the cel, which is the exported canvas.
C11_FailedCelSkipped ==
    \A place \in Places :
        BadCelRead(place) =>
            /\ aseParsed.ok
            /\ aseParsed = parseAseprite(blob)
            /\ \A i \in 1..Len(aseParsed.doc.pixels) :
                  aseParsed.doc.pixels[i] # StrayIndex
            /\ (Canvas.width < 65536 /\ Canvas.height < 65536) => SameAsCanvas

\* a file whose first chunk is a cel with a wrong checksum was read: the
\* palette chunk and the cel after it gave the colours and the pixels
C11_Witness ==
    /\ pc = "read"
    /\ aseBuffer = WithBadCel(blob, "first", "checksum")
    /\ aseParsed.ok
    /\ \E i \in 1..Len(aseParsed.doc.pixels) : aseParsed.doc.pixels[i] > 0
    /\ \E i \in 1..64 : aseParsed.doc.palette[i].r > 0
    /\ SameAsCanvas

\* a file whose last chunk is a cel cut short was read: the canvas kept the
\* pixels of the cel before it
C11_WitnessLast ==
    /\ pc = "read"
    /\ aseBuffer = WithBadCel(blob, "last", "cut")
    /\ aseParsed.ok
    /\ \E i \in 1..Len(aseParsed.doc.pixels) : aseParsed.doc.pixels[i] > 0
    /\ SameAsCanvas

(***************************************************************************)
(* C12                                                                      *)
(***************************************************************************)
OldField == GetU16LE(aseBuffer, 134)
NewField == GetU32LE(aseBuffer, 140)

\* the file read is the file written but for the chunk counts
CountsRead ==
    /\ pc = "read"
    /\ Len(aseBuffer) = Len(blob)
    /\ aseBuffer = WithChunkCounts(blob, OldField, NewField)

AllZero(q) == \A i \in 1..Len(q) : q[i] = 0

\* what the parse of an export returns when it walks n chunks: nothing but
\* the black palette and the blank canvas for none; the palette for one or
\* two (the layer chunk is skipped); the pixels too for three; and a read
\* beyond the end of the file for more
WalkedChunks(n) ==
    CASE n = 0      -> /\ aseParsed.ok
                       /\ aseParsed.doc.palette = BlackPalette
                       /\ AllZero(aseParsed.doc.pixels)
      [] n \in 1..2 -> /\ aseParsed.ok
                       /\ \A i \in 1..Len(Canvas.palette) :
                             aseParsed.doc.palette[i] = Canvas.palette[i]
                       /\ AllZero(aseParsed.doc.pixels)
      [] n = 3      -> /\ aseParsed.ok
                       /\ \A i \in 1..Len(Canvas.palette) :
                             aseParsed.doc.palette[i] = Canvas.palette[i]
                       /\ aseParsed.doc.pixels = Canvas.pixels
      [] OTHER      -> aseParsed = RangeError

\* C12 as stated: the number of chunks walked is the old 16-bit field, or
\* the new 32-bit field when the old one is zero; when both are non-zero
\* and differ, the old value is used.
C12_OldFieldFirst ==
    CountsRead => WalkedChunks(IF OldField = 0 THEN NewField ELSE OldField)

\* C12 (amended): the number of chunks walked is the new 32-bit field, or
\* the old 16-bit field when the new one is zero; when both are non-zero
\* and differ, the new value is used.
C12_NewFieldFirst ==
    CountsRead => WalkedChunks(IF NewField = 0 THEN OldField ELSE NewField)

\* a file declaring one chunk in the old field and three in the new was
\* read: the cel, its third chunk, gave the pixels
C12_Witness ==
    /\ CountsRead /\ OldField = 1 /\ NewField = 3
    /\ aseParsed.ok
    /\ aseParsed.doc.pixels = Canvas.pixels
    /\ ~AllZero(aseParsed.doc.pixels)

\* a file declaring three chunks in the old field and none in the new was
\* read: the old field counted
C12_WitnessFallback ==
    /\ CountsRead /\ OldField = 3 /\ NewField = 0
    /\ WalkedChunks(3)
    /\ ~AllZero(aseParsed.doc.pixels)

(***************************************************************************)
(* C13                                                                      *)
(***************************************************************************)
Bit(flag) == IF flag THEN 1 ELSE 0

\* the 16-bit word the file holds for the cell at column x, row y
FileWord(x, y) ==
    GetU16BE(file, HeaderSize + TileBytes * Len(jim.tiles) + PaletteTableSize + 4
                   + 2 * (y * jim.mapWidth + x))

\* C13: createJimFile packs each MapCell into one 16-bit word with bit 15 =
\* priority, bits 14-13 = paletteIndex, bit 12 = vFlip, bit 11 = hFlip, bits
\* 10-0 = tileIndex, and parseJimFile unpacks the same layout: a cell with
\* tileIndex <= 2047 and paletteIndex 0..3 comes back unchanged; for
\* tileIndex > 2047 the write does not fail, keeps the low 11 bits, and the
\* other four fields of the word are those of the cell.
C13_CellWord ==
    /\ pc \in {"file", "damaged", "parsed", "rewritten"} =>
          \A y \in 0..(jim.mapHeight - 1), x \in 0..(jim.mapWidth - 1) :
              LET cell == Cell(jim, x, y)
              IN  /\ FileWord(x, y) \div 32768 = Bit(cell.priority)
                  /\ (FileWord(x, y) \div 8192) % 4 = cell.paletteIndex
                  /\ (FileWord(x, y) \div 4096) % 2 = Bit(cell.vFlip)
                  /\ (FileWord(x, y) \div 2048) % 2 = Bit(cell.hFlip)
                  /\ FileWord(x, y) % 2048 = cell.tileIndex % 2048
    /\ (pc = "parsed" /\ buffer = file) =>
          /\ parsed.ok
          /\ \A y \in 0..(jim.mapHeight - 1), x \in 0..(jim.mapWidth - 1) :
                /\ Cell(parsed.doc, x, y) =
                      [Cell(jim, x, y) EXCEPT !.tileIndex = @ % 2048]
                /\ Cell(jim, x, y).tileIndex <= 2047 =>
                      Cell(parsed.doc, x, y) = Cell(jim, x, y)

\* a map holding a cell of tile index 2049 with both flips and priority,
\* and a cell of tile index 2047, was written and parsed
C13_Witness ==
    /\ pc = "parsed" /\ buffer = file
    /\ jim.mapWidth = 2 /\ jim.mapHeight = 2
    /\ \E y \in 0..1, x \in 0..1 :
          /\ Cell(jim, x, y) = CellKinds[5]
          /\ FileWord(x, y) = 32768 + 4096 + 2048 + 1
          /\ Cell(parsed.doc, x, y).tileIndex = 1
          /\ Cell(parsed.doc, x, y).hFlip /\ Cell(parsed.doc, x, y).vFlip
    /\ \E y \in 0..1, x \in 0..1 :
          /\ Cell(jim, x, y).tileIndex = 2047
          /\ Cell(parsed.doc, x, y) = Cell(jim, x, y)

(***************************************************************************)
(* C14                                                                      *)
(***************************************************************************)
\* the big-endian number in the n bytes of the file from offset off
FileNumber(off, n) ==
    IF n = 2 THEN At(file, off) * 256 + At(file, off + 1)
    ELSE At(file, off) * 16777216 + At(file, off + 1) * 65536
         + At(file, off + 2) * 256 + At(file, off + 3)

PalOffsetOf(doc) == 10 + 32 * Len(doc.tiles)
MapOffsetOf(doc) == PalOffsetOf(doc) + 128

\* the size, the header, the tiles, the palette words and the cells of the
\* file written for jim, each at the offset the sizes before it give
LayoutButMapHeader ==
    /\ Len(file) = 10 + 32 * Len(jim.tiles) + 128 + 4 + 2 * jim.mapWidth * jim.mapHeight
    /\ FileNumber(0, 4) = PalOffsetOf(jim)
    /\ FileNumber(4, 4) = MapOffsetOf(jim)
    /\ FileNumber(8, 2) = Len(jim.tiles)
    /\ \A i \in 0..(Len(jim.tiles) - 1), k \in 0..31 :
          At(file, 10 + 32 * i + k) =
              16 * Low4(At(At(jim.tiles[i + 1], (2 * k) \div 8), (2 * k) % 8))
              + Low4(At(At(jim.tiles[i + 1], (2 * k + 1) \div 8), (2 * k + 1) % 8))
    /\ \A p \in 0..3, c \in 0..15 :
          FileNumber(PalOffsetOf(jim) + 2 * (16 * p + c), 2) =
              2 * Field(jim.palettes[p + 1][c + 1].r)
              + 32 * Field(jim.palettes[p + 1][c + 1].g)
              + 512 * Field(jim.palettes[p + 1][c + 1].b)
    /\ \A y \in 0..(jim.mapHeight - 1), x \in 0..(jim.mapWidth - 1) :
          FileNumber(MapOffsetOf(jim) + 4 + 2 * (y * jim.mapWidth + x), 2) =
              32768 * Bit(Cell(jim, x, y).priority)
              + 8192 * Cell(jim, x, y).paletteIndex
              + 4096 * Bit(Cell(jim, x, y).vFlip)
              + 2048 * Bit(Cell(jim, x, y).hFlip)
              + (Cell(jim, x, y).tileIndex % 2048)

Written == pc \in {"file", "damaged", "parsed", "rewritten"}

\* C14 as stated: for every JimData with N tiles and a mapWidth x mapHeight
\* grid, createJimFile returns exactly 10 + 32N + 128 + 4 + 2*mapWidth*mapHeight
\* bytes: the header with palette offset 10 + 32N, map offset = palette
\* offset + 128 and tile count N (big-endian), then without padding the
\* tiles, the palette words, the map width and height, and the cells in
\* row-major order.
C14_EveryDocument ==
    Written =>
        /\ LayoutButMapHeader
        /\ FileNumber(MapOffsetOf(jim), 2) = jim.mapWidth
        /\ FileNumber(MapOffsetOf(jim) + 2, 2) = jim.mapHeight

\* C14 (amended): the same size and layout, where the map header holds the
\* map width and height modulo 65536: the width and height themselves for
\* every document whose mapWidth and mapHeight are below 65536.
C14_Layout ==
    Written =>
        /\ LayoutButMapHeader
        /\ FileNumber(MapOffsetOf(jim), 2) = jim.mapWidth % 65536
        /\ FileNumber(MapOffsetOf(jim) + 2, 2) = jim.mapHeight % 65536
        /\ (jim.mapWidth < 65536 /\ jim.mapHeight < 65536) =>
              /\ FileNumber(MapOffsetOf(jim), 2) = jim.mapWidth
              /\ FileNumber(MapOffsetOf(jim) + 2, 2) = jim.mapHeight

\* a document of two tiles and a 2x2 map of four different cells was
\* written: 206 + 8 bytes, the cell of row 1, column 0 in the third word
C14_Witness ==
    /\ pc = "file"
    /\ Len(jim.tiles) = 2 /\ jim.mapWidth = 2 /\ jim.mapHeight = 2
    /\ Cell(jim, 0, 1) # Cell(jim, 1, 0)
    /\ Len(file) = 214
    /\ FileNumber(0, 4) = 74 /\ FileNumber(4, 4) = 202 /\ FileNumber(8, 2) = 2
    /\ FileNumber(202, 2) = 2 /\ FileNumber(204, 2) = 2
    /\ FileNumber(210, 2) % 2048 = Cell(jim, 0, 1).tileIndex % 2048
    /\ FileNumber(210, 2) \div 8192 = 4 * Bit(Cell(jim, 0, 1).priority)
                                      + Cell(jim, 0, 1).paletteIndex

(***************************************************************************)
(* C15                                                                      *)
(***************************************************************************)
\* C15: with forceUnique = true, convertAsepriteToJim makes every 8x8 block
\* a new tile: tiles.length = mapWidth * mapHeight, and the cell at column
\* x, row y has tileIndex = y * mapWidth + x and hFlip = vFlip = false, also
\* when blocks have the same content.
C15_ForceUnique ==
    (pc = "converted" /\ forceUnique) =>
        /\ Len(result.doc.tiles) = result.doc.mapWidth * result.doc.mapHeight
        /\ \A y \in 0..(result.doc.mapHeight - 1), x \in 0..(result.doc.mapWidth - 1) :
              /\ Cell(result.doc, x, y).tileIndex = y * result.doc.mapWidth + x
              /\ ~Cell(result.doc, x, y).hFlip
              /\ ~Cell(result.doc, x, y).vFlip

\* a 16x16 image of four equal blocks that are not blank was converted
\* with forceUnique: four equal tiles
C15_Witness ==
    /\ pc = "converted" /\ forceUnique
    /\ result.doc.mapWidth = 2 /\ result.doc.mapHeight = 2
    /\ Len(result.doc.tiles) = 4
    /\ result.doc.tiles[1] # BlankTile
    /\ \A i \in 2..4 : result.doc.tiles[i] = result.doc.tiles[1]
    /\ Cell(result.doc, 1, 1).tileIndex = 3

(***************************************************************************)
(* C16                                                                      *)
(***************************************************************************)
\* C16: updateJimFromImage never regenerates palettes or resizes the map:
\* the 4 palettes, mapWidth and mapHeight of the result are exactly those of
\* the existing document, only tiles and map cells are rebuilt (the grid
\* keeps its mapHeight rows of mapWidth cells), and every rebuilt cell has
\* priority = false whatever the existing cell's priority was.
C16_PalettesAndSizeKept ==
    pc = "updated" =>
        /\ result.ok
        /\ result.doc.palettes = originalJim.palettes
        /\ result.doc.mapWidth = originalJim.mapWidth
        /\ result.doc.mapHeight = originalJim.mapHeight
        /\ Len(result.doc.mapData) = originalJim.mapHeight
        /\ \A y \in 0..(originalJim.mapHeight - 1) :
              /\ Len(result.doc.mapData[y + 1]) = originalJim.mapWidth
              /\ \A x \in 0..(originalJim.mapWidth - 1) :
                    ~Cell(result.doc, x, y).priority

\* a raster was imported into a document with colours off the hardware
\* levels and a cell of priority true: the colours stayed, the tiles were
\* rebuilt
C16_Witness ==
    /\ pc = "updated"
    /\ \E p \in 1..4, c \in 1..16 : originalJim.palettes[p][c].r % 36 # 0
    /\ \E x \in 0..(originalJim.mapWidth - 1) : Cell(originalJim, x, 0).priority
    /\ result.doc.palettes = originalJim.palettes
    /\ result.doc.tiles # originalJim.tiles
    /\ ~Cell(result.doc, 0, 0).priority

(***************************************************************************)
(* C17                                                                      *)
(***************************************************************************)
\* the squared Euclidean RGB distance of entry i (from 0) to the target
SqDist(i) ==
    (targetColor.r - paletteColors[i + 1].r) * (targetColor.r - paletteColors[i + 1].r)
    + (targetColor.g - paletteColors[i + 1].g) * (targetColor.g - paletteColors[i + 1].g)
    + (targetColor.b - paletteColors[i + 1].b) * (targetColor.b - paletteColors[i + 1].b)

\* C17: findNearestColorWithDist returns the lowest index among the palette
\* entries with minimal squared Euclidean RGB distance to the target, and
\* that distance: no entry is nearer, and every entry before it is farther
\* (the scan runs 0..N-1 and an entry replaces the best only when its
\* distance is strictly smaller).
C17_LowestNearest ==
    (pc = "nearest" /\ Len(paletteColors) > 0) =>
        /\ nearest.index \in 0..(Len(paletteColors) - 1)
        /\ nearest.finite
        /\ nearest.distance = SqDist(nearest.index)
        /\ \A j \in 0..(Len(paletteColors) - 1) : SqDist(j) >= nearest.distance
        /\ \A j \in 0..(nearest.index - 1) : SqDist(j) > nearest.distance

\* a colour half way between the entries 1 and 2 of a palette, entry 0
\* farther away, was looked up: entry 1
C17_Witness ==
    /\ pc = "nearest"
    /\ Len(paletteColors) = 3
    /\ SqDist(1) = SqDist(2) /\ SqDist(0) > SqDist(1)
    /\ paletteColors[2] # paletteColors[3]
    /\ nearest.index = 1

(***************************************************************************)
(* C18                                                                      *)
(***************************************************************************)
\* entry i (from 0) of the source palette, black when it has no such entry
SourceColor(i) == IF i < Len(ase.palette) THEN ase.palette[i + 1] ELSE Black

\* C18: convertAsepriteToJim returns exactly 4 palettes of exactly 16
\* colours, where palette p entry c is source entry 16p + c taken through
\* rgbToGenesisColor then parseGenesisColor (black when the source has no
\* such entry): every channel is one of 0, 36, ..., 252, and the source
\* entries from 64 on have no part in it.
C18_SnappedPalettes ==
    pc = "converted" =>
        /\ Len(result.doc.palettes) = 4
        /\ \A p \in 0..3 :
              /\ Len(result.doc.palettes[p + 1]) = 16
              /\ \A c \in 0..15 :
                    LET got == result.doc.palettes[p + 1][c + 1]
                        src == SourceColor(16 * p + c)
                    IN  /\ got = [r |-> 36 * Field(src.r), g |-> 36 * Field(src.g),
                                  b |-> 36 * Field(src.b)]
                        /\ {got.r, got.g, got.b} \subseteq HardwareLevels

\* a document with 256 colours off the hardware levels was converted
C18_Witness ==
    /\ pc = "converted"
    /\ Len(ase.palette) = 256
    /\ ase.palette[64].r % 36 # 0 /\ ase.palette[65] # Black
    /\ result.doc.palettes[4][16].r = 36 * Field(ase.palette[64].r)
    /\ result.doc.palettes[4][16] # ase.palette[64]

\* a document with 20 colours was converted: black from entry 20 on
C18_WitnessShort ==
    /\ pc = "converted"
    /\ Len(ase.palette) = ShortPalette
    /\ result.doc.palettes[2][4] # Black
    /\ result.doc.palettes[2][5] = Black
    /\ result.doc.palettes[4][16] = Black

(***************************************************************************)
(* C19                                                                      *)
(***************************************************************************)
\* the pixels of a block, as <<column, row>> inside the block
BlockPositions == (0..7) \X (0..7)

\* whether pixel q of block (bx, by) lies inside the image
InExtent(bx, by, q) == 8 * bx + q[1] < ase.width /\ 8 * by + q[2] < ase.height

\* the index the image holds for it, 0 outside the image
SourceIndex(bx, by, q) ==
    IF InExtent(bx, by, q)
    THEN ase.pixels[(8 * by + q[2]) * ase.width + (8 * bx + q[1]) + 1]
    ELSE 0

\* the number of pixels of the block with a non-zero index of the bank
BankCount(bx, by, bank) ==
    Cardinality({q \in BlockPositions :
                    /\ SourceIndex(bx, by, q) # 0
                    /\ SourceIndex(bx, by, q) \div 16 = bank})

\* the content of the block the cell stands for: the tile it references,
\* its columns reversed when hFlip and its rows reversed when vFlip
Drawn(doc, x, y) ==
    LET cell == Cell(doc, x, y)
        t    == doc.tiles[cell.tileIndex + 1]
    IN  [py \in 1..8 |-> [px \in 1..8 |->
            t[IF cell.vFlip THEN 9 - py ELSE py][IF cell.hFlip THEN 9 - px ELSE px]]]

\* C19: for each 8x8 block of a sprite document (its pixel buffer holding
\* width x height indices), the chosen palette is the bank among 0..3 with
\* the highest count of non-zero-index pixels (index / 16 = bank), the
\* lowest-numbered bank winning ties and bank 0 chosen when no pixel is
\* counted; every pixel whose index is 0, whose bank differs from the
\* chosen one, or whose index is 64 or above becomes 0 in the tile, and
\* every other pixel becomes index mod 16; pixels of edge blocks beyond the
\* image extent read as 0.
C19_BankAndNormalize ==
    (pc = "converted" /\ ~ShortPixels) =>
        \A by \in 0..(result.doc.mapHeight - 1), bx \in 0..(result.doc.mapWidth - 1) :
            LET chosen == Cell(result.doc, bx, by).paletteIndex
            IN  /\ chosen \in 0..3
                /\ \A b \in 0..3 : BankCount(bx, by, b) <= BankCount(bx, by, chosen)
                /\ \A b \in 0..(chosen - 1) : BankCount(bx, by, b) < BankCount(bx, by, chosen)
                /\ \A q \in BlockPositions :
                      LET idx == SourceIndex(bx, by, q)
                          got == Drawn(result.doc, bx, by)[q[2] + 1][q[1] + 1]
                      IN  /\ (idx = 0 \/ idx \div 16 # chosen \/ idx >= 64) => got = 0
                          /\ ~(idx = 0 \/ idx \div 16 # chosen \/ idx >= 64) => got = idx % 16
                          /\ ~InExtent(bx, by, q) => got = 0

\* a block holding one pixel of bank 2 and one of bank 1 was converted:
\* bank 1 chosen, its pixel kept as 5, the other dropped
C19_WitnessTie ==
    /\ pc = "converted" /\ ~ShortPixels
    /\ SourceIndex(0, 0, <<0, 0>>) = 37 /\ SourceIndex(0, 0, <<5, 2>>) = 21
    /\ BankCount(0, 0, 1) = 1 /\ BankCount(0, 0, 2) = 1 /\ BankCount(0, 0, 0) = 0
    /\ Cell(result.doc, 0, 0).paletteIndex = 1
    /\ Drawn(result.doc, 0, 0)[1][1] = 0
    /\ Drawn(result.doc, 0, 0)[3][6] = 5

\* an image 13 pixels wide and 11 high, its blocks of bank 1 with a pixel of
\* bank 0 and an index 70, was converted: the edge blocks are cut
C19_Witness ==
    /\ pc = "converted" /\ ~ShortPixels
    /\ ase.width = 13 /\ ase.height = 11
    /\ SourceIndex(0, 0, <<0, 0>>) = 5 /\ SourceIndex(0, 0, <<7, 0>>) = 70
    /\ SourceIndex(0, 0, <<3, 3>>) = 17
    /\ Cell(result.doc, 0, 0).paletteIndex = 1
    /\ Drawn(result.doc, 0, 0)[1][1] = 0 /\ Drawn(result.doc, 0, 0)[1][8] = 0
    /\ Drawn(result.doc, 0, 0)[4][4] = 1
    /\ Drawn(result.doc, 1, 1)[1][1] = 0 /\ Drawn(result.doc, 1, 1)[2][2] = 1
    /\ Drawn(result.doc, 1, 1)[1][6] = 0 /\ Drawn(result.doc, 1, 1)[4][1] = 0

(***************************************************************************)
(* C20                                                                      *)
(***************************************************************************)
\* the orientations in the order they are tried, as <<hFlip, vFlip>>
Orientations == <<<<FALSE, FALSE>>, <<TRUE, FALSE>>, <<FALSE, TRUE>>, <<TRUE, TRUE>>>>

\* tile t with its columns reversed when o[1] and its rows reversed when o[2]
Oriented(t, o) ==
    [py \in 1..8 |-> [px \in 1..8 |->
        t[IF o[2] THEN 9 - py ELSE py][IF o[1] THEN 9 - px ELSE px]]]

\* the normalized content of block (x, y) of the input
BlockContent(x, y) ==
    IF pc = "converted"
    THEN NormalizedTile(BlockIndices(ase, x, y), BestPalette(BlockIndices(ase, x, y)))
    ELSE BestFit(BlockPixels(imageData, x, y), originalJim.palettes).bestTileIndices

\* the cell of block (x, y) references the lowest slot of the arena that
\* equals the block in some orientation, with the first orientation of that
\* slot that does; a block without rows (C9) is the slot as it is
CellReproduces(doc, x, y) ==
    LET cell    == Cell(doc, x, y)
        content == BlockContent(x, y)
        slot    == cell.tileIndex + 1
    IN  /\ slot \in 1..Len(doc.tiles)
        /\ IF content = <<>>
           THEN doc.tiles[slot] = <<>> /\ ~cell.hFlip /\ ~cell.vFlip
           ELSE /\ Oriented(doc.tiles[slot], <<cell.hFlip, cell.vFlip>>) = content
                /\ \A j \in 1..(slot - 1), k \in 1..4 :
                      Oriented(doc.tiles[j], Orientations[k]) # content
                /\ \A k \in 1..4 :
                      Oriented(doc.tiles[slot], Orientations[k]) = content =>
                          \E n \in 1..k : Orientations[n] = <<cell.hFlip, cell.vFlip>>

\* C20: in both conversions with deduplication on, every emitted MapCell
\* reproduces its block: tiles[cell.tileIndex] with its columns reversed when
\* hFlip and its rows reversed when vFlip is exactly the block's normalized
\* 8x8 content; the cell references the lowest arena slot that matches in
\* any orientation, and its flip bits are the first orientation of that
\* slot that matches in the order exact, horizontal, vertical, both (an
\* exact match reports hFlip = vFlip = false).
C20_CellsReproduceBlocks ==
    ((pc = "converted" /\ ~forceUnique) \/ pc = "updated") =>
        \A y \in 0..(result.doc.mapHeight - 1), x \in 0..(result.doc.mapWidth - 1) :
            CellReproduces(result.doc, x, y)

\* a conversion gave a cell flipped on one axis only although the flip on
\* both axes reproduces its block too: the tile equals one of its own flips
C20_Witness ==
    /\ pc = "converted" /\ ~forceUnique
    /\ \E y \in 0..(result.doc.mapHeight - 1), x \in 0..(result.doc.mapWidth - 1) :
          /\ Cell(result.doc, x, y).hFlip # Cell(result.doc, x, y).vFlip
          /\ Oriented(result.doc.tiles[Cell(result.doc, x, y).tileIndex + 1],
                      <<TRUE, TRUE>>) = BlockContent(x, y)
          /\ CellReproduces(result.doc, x, y)

\* an import gave a cell that references an earlier tile turned on both axes
C20_WitnessUpdate ==
    /\ pc = "updated"
    /\ \E y \in 0..(result.doc.mapHeight - 1), x \in 0..(result.doc.mapWidth - 1) :
          /\ Cell(result.doc, x, y).hFlip /\ Cell(result.doc, x, y).vFlip
          /\ Cell(result.doc, x, y).tileIndex = 0
          /\ BlockContent(x, y) # result.doc.tiles[1]
          /\ CellReproduces(result.doc, x, y)

(***************************************************************************)
(* C21                                                                      *)
(***************************************************************************)
\* the positions <<x, y>> of the cells of doc that reference arena slot i
\* (counted from 1)
RefsOf(doc, i) ==
    {q \in (0..(doc.mapWidth - 1)) \X (0..(doc.mapHeight - 1)) :
        Cell(doc, q[1], q[2]).tileIndex = i - 1}

\* the place of a cell in the scan, y outer and x inner
ScanPlace(doc, q) == q[2] * doc.mapWidth + q[1]

\* the first cell of the scan that references slot i
FirstRef(doc, i) ==
    CHOOSE q \in RefsOf(doc, i) :
        \A o \in RefsOf(doc, i) : ScanPlace(doc, q) <= ScanPlace(doc, o)

\* C21: tile indices are assigned in row-major scan order of first
\* appearance: in the result of either conversion every arena slot is
\* referenced; for slots i < j the first cell (y outer, x inner) that
\* references slot i comes before the first cell that references slot j;
\* that first cell has hFlip = vFlip = false and its block content equals
\* tiles[i].
C21_FirstAppearanceOrder ==
    pc \in {"converted", "updated"} =>
        LET doc == result.doc
        IN  \A i \in 1..Len(doc.tiles) :
                /\ RefsOf(doc, i) # {}
                /\ LET q == FirstRef(doc, i)
                   IN  /\ ~Cell(doc, q[1], q[2]).hFlip
                       /\ ~Cell(doc, q[1], q[2]).vFlip
                       /\ BlockContent(q[1], q[2]) = doc.tiles[i]
                       /\ \A j \in (i + 1)..Len(doc.tiles) :
                              /\ RefsOf(doc, j) # {}
                              /\ ScanPlace(doc, q) < ScanPlace(doc, FirstRef(doc, j))

\* a conversion with deduplication gave two tiles, and a cell after the
\* first cell of the second tile references the first tile again
C21_Witness ==
    /\ pc = "converted" /\ ~forceUnique
    /\ Len(result.doc.tiles) >= 2
    /\ \E q \in RefsOf(result.doc, 1) :
          /\ ScanPlace(result.doc, q) > ScanPlace(result.doc, FirstRef(result.doc, 2))
          /\ FirstRef(result.doc, 1) = <<0, 0>>

\* an import gave two tiles, the second one first referenced in the second row
C21_WitnessUpdate ==
    /\ pc = "updated"
    /\ Len(result.doc.tiles) >= 2
    /\ FirstRef(result.doc, 2)[2] >= 1

(***************************************************************************)
(* C22                                                                      *)
(***************************************************************************)
\* the cells the import has emitted so far, as <<x, y>>
EmittedCells ==
    {q \in (0..(mapWidth - 1)) \X (0..(mapHeight - 1)) :
        q[2] < Len(newMap) \/ (q[2] = Len(newMap) /\ q[1] < Len(mapRow))}

EmittedCell(q) ==
    IF q[2] < Len(newMap) THEN newMap[q[2] + 1][q[1] + 1] ELSE mapRow[q[1] + 1]

\* block q lies inside the raster
InsideRaster(q) ==
    8 * (q[1] + 1) <= imageData.width /\ 8 * (q[2] + 1) <= imageData.height

\* channel k (0 red, 1 green, 2 blue; 3 is alpha) of pixel (px, py) of block q
RasterChannel(q, px, py, k) ==
    imageData.data[((8 * q[2] + py) * imageData.width + 8 * q[1] + px) * 4 + k + 1]

\* the squared RGB distance of that pixel to entry i of palette p
EntryDist(q, px, py, p, i) ==
    LET c == originalJim.palettes[p + 1][i + 1]
        dr == RasterChannel(q, px, py, 0) - c.r
        dg == RasterChannel(q, px, py, 1) - c.g
        db == RasterChannel(q, px, py, 2) - c.b
    IN  dr * dr + dg * dg + db * db

\* the lowest entry of palette p at the least distance from the pixel
NearestEntry(q, px, py, p) ==
    CHOOSE i \in 0..15 :
        /\ \A k \in 0..15 : EntryDist(q, px, py, p, i) <= EntryDist(q, px, py, p, k)
        /\ \A k \in 0..(i - 1) : EntryDist(q, px, py, p, i) < EntryDist(q, px, py, p, k)

\* the sum over row py, and over the block, of the distances to the nearest
\* entries of palette p
RowError(q, py, p) ==
    LET e(px) == EntryDist(q, px, py, p, NearestEntry(q, px, py, p))
    IN  e(0) + e(1) + e(2) + e(3) + e(4) + e(5) + e(6) + e(7)

BlockError(q, p) ==
    RowError(q, 0, p) + RowError(q, 1, p) + RowError(q, 2, p) + RowError(q, 3, p)
    + RowError(q, 4, p) + RowError(q, 5, p) + RowError(q, 6, p) + RowError(q, 7, p)

\* C22: for each 8x8 block of the raster, updateJimFromImage selects the
\* palette p in 0..3 that minimizes the sum over the 64 pixels of the
\* squared RGB distance to that pixel's nearest entry of palette p, the
\* lowest p on ties; the block's tile is the per-pixel nearest-entry
\* indices for that palette; the alpha channel is ignored.
C22_LeastErrorPalette ==
    pc \in {"updating", "updated", "threw"} =>
        \A q \in EmittedCells :
            InsideRaster(q) =>
                LET cell   == EmittedCell(q)
                    chosen == cell.paletteIndex
                    err    == <<BlockError(q, 0), BlockError(q, 1),
                                 BlockError(q, 2), BlockError(q, 3)>>
                    drawn  == Oriented(newTiles[cell.tileIndex + 1], <<cell.hFlip, cell.vFlip>>)
                IN  /\ chosen \in 0..3
                    /\ \A p \in 0..3 : err[chosen + 1] <= err[p + 1]
                    /\ \A p \in 0..(chosen - 1) : err[chosen + 1] < err[p + 1]
                    /\ \A px \in 0..7, py \in 0..7 :
                          drawn[py + 1][px + 1] = NearestEntry(q, px, py, chosen)

\* a block was imported for which two palettes have the same least error:
\* the lower one was selected; the block has pixels of alpha 0 and of alpha 255
C22_WitnessTie ==
    /\ pc \in {"updating", "updated", "threw"}
    /\ \E q \in EmittedCells :
          /\ InsideRaster(q)
          /\ \E p \in 0..3 :
                /\ p > EmittedCell(q).paletteIndex
                /\ BlockError(q, p) = BlockError(q, EmittedCell(q).paletteIndex)
          /\ \E px \in 0..7, py \in 0..7 : RasterChannel(q, px, py, 3) = 0
          /\ \E px \in 0..7, py \in 0..7 : RasterChannel(q, px, py, 3) = 255

\* a block off the palette colours was imported: palette 2 was selected
\* with an error above 0, and palette 0 would have given more
C22_Witness ==
    /\ pc = "updated"
    /\ \E q \in EmittedCells :
          /\ InsideRaster(q)
          /\ EmittedCell(q).paletteIndex = 2
          /\ BlockError(q, 2) > 0
          /\ BlockError(q, 0) > BlockError(q, 2)
          /\ \E px \in 0..7, py \in 0..7 : RasterChannel(q, px, py, 3) = 0
          /\ \E px \in 0..7, py \in 0..7 : RasterChannel(q, px, py, 3) = 255

(***************************************************************************)
(* C23                                                                      *)
(***************************************************************************)
\* the tile whose rows are the arrays at the addresses `rows`
TileAt(store, rows) == [y \in 1..Len(rows) |-> store[rows[y]]]

\* the row arrays of a tile
RowArrays(rows) == {rows[y] : y \in 1..Len(rows)}

\* the store after value val is written at column x of row y of variant w
AfterWrite(w, y, x, val) == [rowStore EXCEPT ![variantRows[w][y]][x] = val]

\* C23: getFlippedVariants never aliases its source: none of the three
\* tiles it returns (h, v, hv) shares a row array with the input tile or
\* with each other, so writing a pixel into any returned variant leaves the
\* source tile unchanged.
C23_NoAliasing ==
    pc = "stored" =>
        /\ \A w \in {"h", "v", "hv"} :
              RowArrays(variantRows[w]) \cap RowArrays(tileRows) = {}
        /\ \A w1, w2 \in {"h", "v", "hv"} :
              w1 # w2 => RowArrays(variantRows[w1]) \cap RowArrays(variantRows[w2]) = {}
        /\ \A w \in {"h", "v", "hv"}, y \in 1..TileSize, x \in 1..TileSize :
              TileAt(AfterWrite(w, y, x, 9), tileRows) = tile

\* what holds instead: h and hv have rows of their own, the rows of v are
\* the rows of the source in reverse order, and a write into row y of v
\* shows in row 9 - y of the source
C23_VerticalSharesRows ==
    pc = "stored" =>
        /\ \A w \in {"h", "v", "hv"} :
              TileAt(rowStore, variantRows[w]) = getFlippedVariants(tile)[w]
        /\ TileAt(rowStore, tileRows) = tile
        /\ RowArrays(variantRows.h) \cap RowArrays(tileRows) = {}
        /\ RowArrays(variantRows.hv) \cap RowArrays(tileRows) = {}
        /\ RowArrays(variantRows.h) \cap RowArrays(variantRows.hv) = {}
        /\ RowArrays(variantRows.v) = RowArrays(tileRows)
        /\ \A w \in {"h", "hv"}, y \in 1..TileSize, x \in 1..TileSize :
              TileAt(AfterWrite(w, y, x, 9), tileRows) = tile
        /\ \A y \in 1..TileSize, x \in 1..TileSize :
              TileAt(AfterWrite("v", y, x, 9), tileRows)
                  = [tile EXCEPT ![TileSize + 1 - y][x] = 9]

(***************************************************************************)
(* C24                                                                      *)
(***************************************************************************)
\* the file read holds the chunks of the export and the appended ones
ReadAppended == pc = "read" /\ Len(appended) > 0 /\ aseParsed.ok

\* pixel (cx, cy) of a cel given as a record
CelPixel(c, cx, cy) == c.pixels[cy * c.w + cx + 1]

\* pixel (px, py) of the parsed canvas, and of the canvas of the export
ParsedPixel(px, py) == aseParsed.doc.pixels[py * aseParsed.doc.width + px + 1]
ExportPixel(px, py) == Canvas.pixels[py * Canvas.width + px + 1]

\* the one cel put behind the cel of the export, when that is the run
OneCel == Len(appended) = 1 /\ appended[1].type = "cel" /\ appended[1].damage = "no"

\* C24: blitting a cel of size celWidth x celHeight at the signed position
\* (x, y) writes cel pixel (cx, cy) to canvas position (x + cx, y + cy)
\* exactly when 0 <= x + cx < width and 0 <= y + cy < height; every other
\* cel pixel is dropped, no write wraps into a neighbouring row, and every
\* canvas pixel outside the cel's rectangle keeps its previous value.
C24_BlitClips ==
    (ReadAppended /\ OneCel) =>
        LET c == appended[1]
            w == aseParsed.doc.width
            h == aseParsed.doc.height
            exported == Canvas
        IN  /\ Len(aseParsed.doc.pixels) = w * h
            /\ \A cx \in 0..(c.w - 1), cy \in 0..(c.h - 1) :
                  (c.x + cx >= 0 /\ c.x + cx < w /\ c.y + cy >= 0 /\ c.y + cy < h)
                      => ParsedPixel(c.x + cx, c.y + cy) = CelPixel(c, cx, cy)
            /\ \A px \in 0..(w - 1), py \in 0..(h - 1) :
                  ~(px - c.x \in 0..(c.w - 1) /\ py - c.y \in 0..(c.h - 1))
                      => ParsedPixel(px, py) = exported.pixels[py * exported.width + px + 1]

\* a cel at a negative position was drawn: its pixel (3, 2) is at (0, 0),
\* and the pixel right of the cel kept the value of the export
C24_Witness ==
    /\ ReadAppended /\ OneCel
    /\ appended[1].x < 0 /\ appended[1].y < 0
    /\ aseParsed.doc.width >= 8 /\ aseParsed.doc.height >= 8
    /\ ParsedPixel(0, 0) = CelPixel(appended[1], 3, 2)
    /\ ParsedPixel(0, 0) # ExportPixel(0, 0)
    /\ ParsedPixel(5, 0) = ExportPixel(5, 0)
    /\ ParsedPixel(5, 0) # 0

\* a cel that overhangs the right edge was drawn: the pixels beyond the edge
\* did not reach the start of the next row, where they would have changed
\* the canvas
C24_WitnessEdge ==
    /\ ReadAppended /\ OneCel
    /\ appended[1].x = aseParsed.doc.width - 2 /\ appended[1].w = 5
    /\ aseParsed.doc.height >= 8 /\ aseParsed.doc.width >= 8
    /\ ParsedPixel(aseParsed.doc.width - 1, 1) = CelPixel(appended[1], 1, 0)
    /\ ParsedPixel(0, 2) = ExportPixel(0, 2)
    /\ ParsedPixel(0, 2) # CelPixel(appended[1], 2, 0)

(***************************************************************************)
(* C25                                                                      *)
(***************************************************************************)
\* the palette chunk is the first chunk of the export, at offset 144: its
\* number of entries, and the colour and the alpha of its entry i
ChunkEntries == GetU32LE(blob, 144 + 6)
ChunkColor(i) ==
    [r |-> At(blob, 144 + 26 + 6 * i + 2), g |-> At(blob, 144 + 26 + 6 * i + 3),
     b |-> At(blob, 144 + 26 + 6 * i + 4)]
ChunkAlpha(i) == At(blob, 144 + 26 + 6 * i + 5)

\* C25: in the palette chunk written by createAsepriteBlob with
\* transparentBg = true, alpha is 0 exactly on entry 0 when a single
\* 16-color palette is exported and exactly on entries 0, 16, 32, 48 when
\* the flattened 64-color form is exported (map mode with selector -1), and
\* 255 on every other entry; with transparentBg = false every entry has
\* alpha 255; tileset mode always exports a single 16-color palette,
\* selector -1 falling back to palette 0.
C25_PaletteAlpha ==
    pc \in {"exported", "corrupted", "altered", "read"} =>
        LET flat == mode = "map" /\ activePaletteIdx = -1
            single == IF activePaletteIdx = -1 THEN 0 ELSE activePaletteIdx
        IN  /\ GetU16LE(blob, 144 + 4) = 8217
            /\ ChunkEntries = IF flat THEN 64 ELSE 16
            /\ \A i \in 0..(ChunkEntries - 1) :
                  /\ ChunkAlpha(i) =
                        IF transparentBg /\ (IF flat THEN i \in {0, 16, 32, 48} ELSE i = 0)
                        THEN 0 ELSE 255
                  /\ ChunkColor(i) =
                        IF flat THEN jim.palettes[(i \div 16) + 1][(i % 16) + 1]
                        ELSE jim.palettes[single + 1][i + 1]

\* a map was exported with all four palettes and transparency: 64 entries,
\* alpha 0 on entry 48 and 255 on entry 47
C25_Witness ==
    /\ pc = "exported" /\ mode = "map" /\ activePaletteIdx = -1 /\ transparentBg
    /\ ChunkEntries = 64
    /\ ChunkAlpha(0) = 0 /\ ChunkAlpha(48) = 0 /\ ChunkAlpha(47) = 255

\* a tileset was exported with selector -1: the 16 entries of palette 0
C25_WitnessTileset ==
    /\ pc = "exported" /\ mode = "tileset" /\ activePaletteIdx = -1 /\ transparentBg
    /\ ChunkEntries = 16
    /\ ChunkAlpha(0) = 0 /\ ChunkAlpha(15) = 255
    /\ ChunkColor(3) = jim.palettes[1][4] /\ ChunkColor(3) # jim.palettes[2][4]

\* a map was exported with palette 2 and without transparency
C25_WitnessOpaque ==
    /\ pc = "exported" /\ mode = "map" /\ activePaletteIdx = 2 /\ ~transparentBg
    /\ ChunkEntries = 16
    /\ ChunkAlpha(0) = 255
    /\ ChunkColor(3) = jim.palettes[3][4]

(***************************************************************************)
(* C26                                                                      *)
(***************************************************************************)
\* a document with h rows of w cells that point into its arena, with a
\* palette line 0..3 and no priority, and whose tiles are 8 x 8 values 0..15
WellFormedDoc(doc, w, h) ==
    /\ doc.mapWidth = w /\ doc.mapHeight = h
    /\ Len(doc.mapData) = h
    /\ \A y \in 1..h :
          /\ Len(doc.mapData[y]) = w
          /\ \A x \in 1..w :
                /\ doc.mapData[y][x].tileIndex \in 0..(Len(doc.tiles) - 1)
                /\ doc.mapData[y][x].paletteIndex \in 0..3
                /\ doc.mapData[y][x].priority = FALSE
    /\ \A i \in 1..Len(doc.tiles) : WellFormedTile(doc.tiles[i])

\* the least n with 8 * n >= len
BlocksFor(len) == CHOOSE n \in 0..len : 8 * n >= len /\ 8 * (n - 1) < len

\* C26: every document returned by convertAsepriteToJim (either
\* deduplication setting, any width and height, pixel values 0..255) or by
\* updateJimFromImage on an image that covers the map is well-formed:
\* mapData has mapHeight rows of mapWidth cells (ceil(width/8) and
\* ceil(height/8) for the sprite conversion), every cell has
\* tileIndex < tiles.length, paletteIndex in 0..3 and priority = false, and
\* every tile is 8 rows of 8 values in 0..15.
C26_WellFormed ==
    /\ pc = "converted" =>
          /\ result.ok
          /\ WellFormedDoc(result.doc, BlocksFor(ase.width), BlocksFor(ase.height))
    /\ (pc = "updated" /\ ~ShortRaster) =>
          /\ result.ok
          /\ WellFormedDoc(result.doc, originalJim.mapWidth, originalJim.mapHeight)

\* a sprite document whose size is not a multiple of 8 and which holds a
\* pixel value above 63 was converted, into more than one tile
C26_Witness ==
    /\ pc = "converted"
    /\ ase.width % 8 # 0 /\ ase.height % 8 # 0
    /\ \E i \in 1..Len(ase.pixels) : ase.pixels[i] > 63
    /\ Len(result.doc.tiles) > 1

\* a raster covering a map of several cells was imported
C26_WitnessUpdate ==
    /\ pc = "updated" /\ ~ShortRaster
    /\ originalJim.mapWidth > 1 /\ originalJim.mapHeight > 1
    /\ Len(result.doc.tiles) > 1

(***************************************************************************)
(* C27                                                                      *)
(***************************************************************************)
\* tile b is tile a, or a mirrored along one axis or along both; a tile
\* that has no 8 rows is like itself only
AlikeUnderFlip(a, b) ==
    IF Len(a) # TileSize \/ Len(b) # TileSize THEN a = b
    ELSE \E fh, fv \in BOOLEAN :
             \A y, x \in 1..TileSize :
                 b[y][x] = a[IF fv THEN TileSize + 1 - y ELSE y][IF fh THEN TileSize + 1 - x ELSE x]

\* some cell emitted so far points at its tile flipped
SomeCellFlipped ==
    \/ \E x \in 1..Len(mapRow) : mapRow[x].hFlip \/ mapRow[x].vFlip
    \/ \E y \in 1..Len(newMap) : \E x \in 1..Len(newMap[y]) :
           newMap[y][x].hFlip \/ newMap[y][x].vFlip

\* C27: with deduplication on, the tile arena built by either conversion
\* never holds two entries that are equivalent under flipping: after any
\* number of blocks, for all slots i # j, tiles[j] differs from tiles[i] and
\* from the horizontal, vertical and both-axes flips of tiles[i].
C27_ArenaHasNoEquivalents ==
    (\/ pc \in {"converting", "converted"} /\ ~forceUnique
     \/ pc \in {"updating", "updated", "threw"}) =>
        \A i, j \in 1..Len(newTiles) :
            i # j => ~AlikeUnderFlip(newTiles[i], newTiles[j])

\* a conversion with deduplication on holds two tiles, after a block was
\* found in the arena in a flipped orientation
C27_Witness ==
    /\ pc = "converting" /\ ~forceUnique
    /\ Len(newTiles) > 1
    /\ SomeCellFlipped

\* the same for the raster import
C27_WitnessUpdate ==
    /\ pc = "updating"
    /\ Len(newTiles) > 1
    /\ SomeCellFlipped

(***************************************************************************)
(* C28                                                                      *)
(***************************************************************************)
\* the appended cels that decompress and cover canvas pixel (px, py), and
\* the appended palette chunks with a record for slot s, by place in the run
CelsOver(px, py) ==
    {k \in 1..Len(appended) :
        /\ appended[k].type = "cel" /\ appended[k].damage = "no"
        /\ px - appended[k].x \in 0..(appended[k].w - 1)
        /\ py - appended[k].y \in 0..(appended[k].h - 1)}

RecordsFor(s) ==
    {k \in 1..Len(appended) :
        /\ appended[k].type = "palette"
        /\ s - appended[k].first \in 0..(Len(appended[k].colors) - 1)}

Latest(ks) == CHOOSE k \in ks : \A o \in ks : o <= k

\* C28: cels and palette chunks take effect in chunk order with plain
\* overwrite: after parseAseprite each canvas pixel holds the value written
\* by the last successfully decompressed compressed-image cel whose
\* rectangle covers it, or 0 if none does, a later cel's index-0 pixels
\* overwriting an earlier cel's non-zero pixels; and each palette slot holds
\* the color of the last palette-chunk record that addressed it, or black
\* if none did.
C28_ChunkOrder ==
    ReadAppended =>
        LET w == aseParsed.doc.width
            h == aseParsed.doc.height
            exported == Canvas
        IN  /\ Len(aseParsed.doc.pixels) = w * h
            /\ \A px \in 0..(w - 1), py \in 0..(h - 1) :
                  ParsedPixel(px, py) =
                      IF CelsOver(px, py) # {}
                      THEN LET c == appended[Latest(CelsOver(px, py))]
                           IN  CelPixel(c, px - c.x, py - c.y)
                      \* the cel of the export covers the whole canvas
                      ELSE exported.pixels[py * exported.width + px + 1]
            /\ Len(aseParsed.doc.palette) = 256
            /\ \A s \in 0..255 :
                  aseParsed.doc.palette[s + 1] =
                      IF RecordsFor(s) # {}
                      THEN LET c == appended[Latest(RecordsFor(s))]
                           IN  c.colors[s - c.first + 1]
                      \* the palette chunk of the export addresses the
                      \* slots below its number of entries
                      ELSE IF s < ChunkEntries THEN ChunkColor(s)
                      ELSE Black

\* two cels overlap: at (3, 3) the later one wrote index 0 over a non-zero
\* pixel of the earlier one, at (2, 2) a non-zero value over another
C28_Witness ==
    /\ ReadAppended
    /\ Len(appended) = 2 /\ appended[1].type = "cel" /\ appended[2].type = "cel"
    /\ appended[2].damage = "no"
    /\ aseParsed.doc.width >= 8 /\ aseParsed.doc.height >= 8
    /\ CelsOver(3, 3) = {1, 2}
    /\ CelPixel(appended[1], 3, 3) # 0
    /\ ParsedPixel(3, 3) = 0
    /\ ParsedPixel(2, 2) = CelPixel(appended[2], 0, 0)
    /\ ParsedPixel(2, 2) # CelPixel(appended[1], 2, 2)

\* a cel that fails to decompress follows a cel: the pixels of the earlier
\* cel stay
C28_WitnessFailedCel ==
    /\ ReadAppended
    /\ Len(appended) = 2 /\ appended[2].type = "cel" /\ appended[2].damage # "no"
    /\ aseParsed.doc.width >= 8 /\ aseParsed.doc.height >= 8
    /\ ParsedPixel(0, 0) = CelPixel(appended[1], 0, 0)
    /\ ParsedPixel(0, 0) # ExportPixel(0, 0)

\* two palette chunks address slot 2: it holds the colour of the later one,
\* slot 1 that of the earlier one, slot 0 that of the export
C28_WitnessPalette ==
    /\ ReadAppended
    /\ RecordsFor(2) = {1, 2} /\ RecordsFor(1) = {1} /\ RecordsFor(0) = {}
    /\ aseParsed.doc.palette[3] = appended[2].colors[1]
    /\ aseParsed.doc.palette[3] # appended[1].colors[2]
    /\ aseParsed.doc.palette[2] = appended[1].colors[1]
    /\ aseParsed.doc.palette[1] = ChunkColor(0)

(***************************************************************************)
(* C29                                                                      *)
(***************************************************************************)
\* the conversion done block by block and the conversion as one value agree
ConvertWholeAgrees ==
    pc = "converted" => result = convertAsepriteToJim(ase, forceUnique)

\* tile values 0..15, every tileIndex < tiles.length, paletteIndex 0..3
WellFormedSource(doc) ==
    /\ \A i \in 1..Len(doc.tiles) : WellFormedTile(doc.tiles[i])
    /\ Len(doc.mapData) = doc.mapHeight
    /\ \A y \in 1..doc.mapHeight :
          /\ Len(doc.mapData[y]) = doc.mapWidth
          /\ \A x \in 1..doc.mapWidth :
                /\ doc.mapData[y][x].tileIndex \in 0..(Len(doc.tiles) - 1)
                /\ doc.mapData[y][x].paletteIndex \in 0..3

\* the tile of a cell as the cell shows it: under the cell's flips
ShownTile(doc, cell) ==
    [ty \in 1..TileSize |-> [tx \in 1..TileSize |->
        doc.tiles[cell.tileIndex + 1][IF cell.vFlip THEN TileSize + 1 - ty ELSE ty]
                                     [IF cell.hFlip THEN TileSize + 1 - tx ELSE tx]]]

\* a well-formed document went through the export of the whole map with
\* all four palettes, the parser and the conversion
WentRound ==
    /\ pc = "reconverted" /\ mode = "map" /\ activePaletteIdx = -1
    /\ WellFormedSource(jim)

\* the converted document shows the picture of the exported one
SamePicture ==
    /\ result.ok
    /\ result.doc.mapWidth = jim.mapWidth /\ result.doc.mapHeight = jim.mapHeight
    /\ Len(result.doc.mapData) = jim.mapHeight
    /\ \A y \in 1..jim.mapHeight :
          /\ Len(result.doc.mapData[y]) = jim.mapWidth
          /\ \A x \in 1..jim.mapWidth :
                LET new == result.doc.mapData[y][x]
                    old == jim.mapData[y][x]
                IN  /\ new.paletteIndex = old.paletteIndex
                    /\ new.tileIndex \in 0..(Len(result.doc.tiles) - 1)
                    /\ ShownTile(result.doc, new) = ShownTile(jim, old)

C29_WitnessUnique ==
    /\ WentRound /\ forceUnique
    /\ jim.mapWidth * jim.mapHeight > Len(jim.tiles)
    /\ Len(result.doc.tiles) = jim.mapWidth * jim.mapHeight

(***************************************************************************)
(* C30                                                                      *)
(***************************************************************************)
\* the cell at (y, x) of the converted document and of the reloaded one
ConvertedCell(y, x) == result.doc.mapData[y][x]
ReloadedCell(y, x) == parsed.doc.mapData[y][x]

MapPlaces == (1..result.doc.mapHeight) \X (1..result.doc.mapWidth)

\* the reloaded document has the tiles and the cells of the converted one
SameTilesAndCells ==
    /\ parsed.ok
    /\ parsed.doc.tiles = result.doc.tiles
    /\ parsed.doc.mapWidth = result.doc.mapWidth
    /\ parsed.doc.mapHeight = result.doc.mapHeight
    /\ \A q \in MapPlaces : ReloadedCell(q[1], q[2]) = ConvertedCell(q[1], q[2])

C30_WitnessAliased ==
    /\ pc = "reloaded" /\ parsed.ok
    /\ Len(result.doc.tiles) = ManyBlocks
    /\ parsed.doc.tiles = result.doc.tiles
    /\ ConvertedCell(1, ManyBlocks).tileIndex = 2048
    /\ ReloadedCell(1, ManyBlocks).tileIndex = 0
    /\ ReloadedCell(1, 1).tileIndex = 0
    /\ result.doc.tiles[1] # result.doc.tiles[ManyBlocks]

====
